---- MODULE Spec2Model ----
(***************************************************************************)
(* A model of the pipeline engine of foxglove_backend                      *)
(* (base/base_pipeline.py, base/base_writer.py, base/base_generator.py,    *)
(* base/base_reader.py, visualizers/__init__.py): the transform registry,  *)
(* the k-way merge of the readers, the "initialize" filter, the            *)
(* correlation of listened topics, the chunker, process_worker, the worker *)
(* pool, the ordered collector thread and the writer process.              *)
(*                                                                         *)
(* TLC compares only values of one kind, so Python's None is written per   *)
(* kind: None for a payload, NoneSlot for a buffer slot, NoListenTo for a  *)
(* listen_to, NoneIndex for an index.                                      *)
(***************************************************************************)
EXTENDS Integers, Sequences, FiniteSets, TLC

\* ------------------------------------------------------------------ bounds
\* Largest number of records drawn for one reader.
MaxLen == 2

\* The timestamps (ns) and the payloads the readers of the model yield.  Payloads
\* are opaque to the engine; here they are str values.
Timestamps == {10, 20, 30}
Payloads == {"a1", "a2"}

\* start_ts = -math.inf : below every timestamp.
NegInf == -1
\* end_ts = math.inf : above every timestamp of the model.
PosInf == 31

\* Python's None as a payload.
None == "None"

\* ------------------------------------------------------------------ records
\* A record is the tuple (src_topic, msg, ts).
Topic(r) == r[1]
Msg(r) == r[2]
Ts(r) == r[3]

\* The str values of the model (payloads and topic names) in Python's str order.
StrOrder == <<"a1", "a2", "derived", "initialize", "pose", "topicX", "topicY">>

StrRank(t) == CHOOSE i \in 1..Len(StrOrder) : StrOrder[i] = t

\* Python's a < b on str.
StrLt(a, b) == StrRank(a) < StrRank(b)

\* Python's a < b on the tuples (src_topic, msg, ts): lexicographic, the first
\* differing component decides.
TupleLt(a, b) ==
    \/ StrLt(Topic(a), Topic(b))
    \/ Topic(a) = Topic(b) /\ StrLt(Msg(a), Msg(b))
    \/ Topic(a) = Topic(b) /\ Msg(a) = Msg(b) /\ Ts(a) < Ts(b)

\* key=lambda x: x : the merge key of a record is the record itself.
MergeKey(r) == r

KeyLt(a, b) == TupleLt(MergeKey(a), MergeKey(b))

\* ------------------------------------------------------------------ state
VARIABLES
    registry,         \* visualizers.registry: <<pattern, classes>> in insertion order
    readers,          \* self.readers: the sequence of readers, each [raw_topic, lines]
    PROCESSORS,       \* the module's PROCESSORS: topic -> list of transform instances
    LISTENED_TOPICS,  \* the module's LISTENED_TOPICS
    start_ts,         \* self.start_ts
    end_ts,           \* self.end_ts
    chunk_size        \* self.chunk_size

cfgVars == <<registry, readers, PROCESSORS, LISTENED_TOPICS, start_ts, end_ts, chunk_size>>

VARIABLES
    heap_pos,   \* heapq_: per reader, the index of its record now in the heap
    merged,     \* the records heapq_ has produced so far, in order
    mq_out,     \* the records get_merge_queue has yielded so far
    mq_pc       \* get_merge_queue: "loop", "break" (past end_ts) or "exhausted"

mergeVars == <<heap_pos, merged, mq_out, mq_pc>>

VARIABLES
    ck_gen,     \* chunk: the part of gen not yet enumerated
    ck_in,      \* chunk: everything gen yields (the argument)
    ck_size,    \* chunk: size
    ck_buffer,  \* chunk: buffer
    ck_i,       \* chunk: i
    ck_count,   \* chunk: count of enumerate(gen), for the next item
    ck_out,     \* chunk: the lists yielded so far
    ck_pc       \* chunk: "loop" or "done"

chunkVars == <<ck_gen, ck_in, ck_size, ck_buffer, ck_i, ck_count, ck_out, ck_pc>>

VARIABLES
    fm_iter,    \* format: the part of iter not yet consumed
    fm_taken,   \* format: the records consumed so far, in order
    last_msg,   \* self.last_msg: listened topic -> latest payload
    fm_out,     \* format: the batch entries yielded so far
    fm_src,     \* format: for each entry yielded, the index in fm_taken of its record
    fm_pc       \* format: "loop" or "done"

formatVars == <<fm_iter, fm_taken, last_msg, fm_out, fm_src, fm_pc>>

VARIABLES
    pw_chunks,  \* the batches handed to process_worker, in submission order
    pw_k,       \* the batch process_worker is running on (index in pw_chunks)
    pw_reses,   \* process_worker: the entries of reses not yet iterated
    pw_buffer,  \* process_worker: buffer
    pw_caught,  \* process_worker: the entries whose call raised, as <<batch, entry>>
    pw_results, \* the ResultBatches returned so far, in batch order
    pw_pc       \* "idle", "loop" (inside process_worker) or "done"

workerVars == <<pw_chunks, pw_k, pw_reses, pw_buffer, pw_caught, pw_results, pw_pc>>

VARIABLES
    concurrency,     \* self.concurrency: the processes of the worker pool
    main_pc,         \* where run() is, in the main thread
    chunk_gen,       \* the chunks self.chunk(self.format(...)) has yet to yield
    prod_ref,        \* _read_line_and_insert_to_worker_pool: ref
    worker_pool,     \* self.worker_pool: "none", "running", "closed" or "joined"
    pool_tasks,      \* the batches given to apply_async, in submission order
    pool_results,    \* per task, <<"pending">> or <<"ready", its ResultBatch>>
    pool_ref_queue,  \* self.pool_ref_queue
    getter_pc,       \* where pool_ref_getter is, in its thread
    getter_ref,      \* pool_ref_getter: ref
    getter_chunk,    \* pool_ref_getter: chunk
    writer_queue,    \* self.writer_queue
    writer_queue_closed,  \* writer_queue.close() was called by run()
    writer_pc,       \* where writer_process is, in its process
    writer_msgs,     \* writer_queue_iter: the part of msgs not yet yielded
    writer_from,     \* the batch msgs came from
    sink_state,      \* the writer: "new", "open" (setup) or "closed" (close)
    sink_lines,      \* the lines write_line was called with, in order
    sink_from,       \* for each line written, the batch it came from
    sink_late,       \* a line was written while the sink was not open
    forwarded,       \* what was put on the writer queue, in order (NoneId: None)
    overtaken,       \* a batch finished while an earlier one was still running
    handed           \* what was put on pool_ref_queue, in order (NoneId: None)

pipeVars ==
    <<concurrency, main_pc, chunk_gen, prod_ref, worker_pool, pool_tasks, pool_results,
      pool_ref_queue, getter_pc, getter_ref, getter_chunk, writer_queue,
      writer_queue_closed, writer_pc, writer_msgs, writer_from, sink_state, sink_lines,
      sink_from, sink_late, forwarded, overtaken, handed>>

VARIABLES
    raising,         \* the reader (from 1) whose generate_line raises once its
                     \* lines are yielded; 0 when no reader raises
    write_raises,    \* the call of write_line (from 1) that raises; 0 when none does
    gen_raises,      \* the producer's generator chain ends by raising
    get_raises       \* the batch (from 1) for which ref.get() raises in the
                     \* collector thread; 0 when none does

faultVars == <<raising, write_raises, gen_raises, get_raises>>

VARIABLES
    su_pc,           \* construction: "import" (modules registering), "set_readers",
                     \* "constructed" or "raised"
    su_calls,        \* the register() calls made, in order, as <<pattern, class>>
    su_todo,         \* the readers set_readers has yet to add
    writer_topic2pb2 \* writer.topic2pb2: <<>> while the attribute is not set,
                     \* <<table>> once set_topic2pb2 was called

setupVars == <<su_pc, su_calls, su_todo, writer_topic2pb2>>

vars ==
    <<cfgVars, mergeVars, chunkVars, formatVars, workerVars, pipeVars, faultVars,
      setupVars>>

\* What each stage leaves alone.
notMerge == <<cfgVars, chunkVars, formatVars, workerVars, pipeVars, faultVars, setupVars>>
notChunk == <<cfgVars, mergeVars, formatVars, workerVars, pipeVars, faultVars, setupVars>>
notFormat == <<cfgVars, mergeVars, chunkVars, pipeVars, faultVars, setupVars>>
notWorker == <<cfgVars, mergeVars, chunkVars, pipeVars, faultVars, setupVars>>
notPipe ==
    <<cfgVars, mergeVars, chunkVars, formatVars, workerVars, faultVars, setupVars>>
notSetup ==
    <<mergeVars, chunkVars, formatVars, workerVars, pipeVars, faultVars, start_ts,
      end_ts, chunk_size>>

\* ------------------------------------------------------------------ dict
\* A dict is a function on its keys.
EmptyDict == [k \in {} |-> None]

\* d.get(k)
DictGet(d, k) == IF k \in DOMAIN d THEN d[k] ELSE None

\* d[k] = v
DictSet(d, k, v) == [x \in (DOMAIN d) \cup {k} |-> IF x = k THEN v ELSE d[x]]

\* ------------------------------------------------------------------ transforms
\* The Generator subclasses of the model.  listen_to is the class attribute
\* (None by default); a listener names the topics it wants correlated.
NoListenTo == <<>>

ListenTo(cls) == IF cls = "Listener" THEN <<"pose">> ELSE NoListenTo

\* The payload on which the faulty transform raises.
Poison == "a2"

\* generate(msg, timestamp, *listen_to_msgs): what the generator yields, as
\* (topic, msg) or (topic, msg, custom_timestamp), and whether it then raises.
Generate(cls, msg, timestamp, listen_to_msgs) ==
    CASE cls = "Echo" ->
           [yields |-> << <<"out/echo", msg>> >>, raises |-> FALSE]
      [] cls = "Listener" ->
           [yields |-> << <<"out/listener", <<msg, listen_to_msgs[1]>> >> >>,
            raises |-> FALSE]
      [] cls = "Faulty" ->
           [yields |-> << <<"out/faulty", msg>> >>, raises |-> msg = Poison]
      [] cls = "Stamped" ->
           [yields |-> << <<"out/stamped", msg, 5>>, <<"out/stamped", msg>> >>,
            raises |-> FALSE]
      [] OTHER ->
           [yields |-> <<>>, raises |-> FALSE]

\* msg.SerializeToString()
SerializeToString(m) == <<"bytes", m>>

CallResult_RecordTs(result, timestamp) ==
    <<result[1], SerializeToString(result[2]), timestamp>>

\* "if len(result) == 3: ... else: ..." of Generator.__call__
CallResult(result, timestamp) ==
    IF Len(result) = 3
    THEN <<result[1], SerializeToString(result[2]), result[3]>>
    ELSE <<result[1], SerializeToString(result[2]), timestamp>>

\* Generator.__call__(msg, timestamp, *listen_to_msgs) of an instance of cls
\* (message_type is PROTO): the tuples it yields and whether it then raises.
GeneratorCall(cls, msg, timestamp, listen_to_msgs) ==
    LET g == Generate(cls, msg, timestamp, listen_to_msgs)
    IN  [yields |-> [k \in 1..Len(g.yields) |-> CallResult(g.yields[k], timestamp)],
         raises |-> g.raises]

\* ------------------------------------------------------------------ registry
AllTopics == {"derived", "initialize", "pose", "topicX", "topicY"}

\* fnmatch(topic, reg_topic_pattern) for the patterns of the model.
fnmatch(topic, pattern) ==
    \/ pattern = topic
    \/ pattern = "*"
    \/ pattern = "topic*" /\ topic \in {"topicX", "topicY"}

\* The instances of one registry item for a topic: gen_cls(src_topic=topic, ...).
Instances(classes, topic) ==
    [k \in 1..Len(classes) |->
        [cls |-> classes[k], src_topic |-> topic, listen_to |-> ListenTo(classes[k])]]

\* get_visualization_generators(topic, ...)
RECURSIVE get_visualization_generators(_, _)
get_visualization_generators(reg, topic) ==
    IF reg = <<>> THEN <<>>
    ELSE (IF fnmatch(topic, Head(reg)[1])
          THEN Instances(Head(reg)[2], topic)
          ELSE <<>>)
         \o get_visualization_generators(Tail(reg), topic)

\* reader.processors, set by BaseReader.match_processors at construction.
ReaderProcessors(reg, reader) == get_visualization_generators(reg, reader.raw_topic)

\* The module globals before any reader is added.
NoProcessors == [PROCESSORS |-> [t \in AllTopics |-> <<>>], LISTENED_TOPICS |-> {}]

RECURSIVE ListenedBy(_)
ListenedBy(procs) ==
    IF procs = <<>> THEN {}
    ELSE {Head(procs).listen_to[k] : k \in 1..Len(Head(procs).listen_to)}
         \cup ListenedBy(Tail(procs))

\* _add_reader(reader), on the module globals g.
AddReader(g, reg, reader) ==
    LET procs == ReaderProcessors(reg, reader)
    IN  [PROCESSORS |->
            [g.PROCESSORS EXCEPT ![reader.raw_topic] = @ \o procs],
         LISTENED_TOPICS |-> g.LISTENED_TOPICS \cup ListenedBy(procs)]

\* set_readers: _add_reader for each reader in turn.
RECURSIVE AddReaders(_, _, _)
AddReaders(g, reg, rs) ==
    IF rs = <<>> THEN g
    ELSE AddReaders(AddReader(g, reg, Head(rs)), reg, Tail(rs))

\* The state after BasePipeline.setup for a registry, readers and options.
Configured(reg, rs, s, e, size) ==
    /\ registry = reg
    /\ readers = rs
    /\ PROCESSORS = AddReaders(NoProcessors, reg, rs).PROCESSORS
    /\ LISTENED_TOPICS = AddReaders(NoProcessors, reg, rs).LISTENED_TOPICS
    /\ start_ts = s
    /\ end_ts = e
    /\ chunk_size = size

\* register(topic_pattern)(cls): "registry[topic_pattern].append(cls)" on a
\* defaultdict(list), whose items() keep the order in which the patterns were
\* first registered.
register(reg, pattern, cls) ==
    IF \E k \in 1..Len(reg) : reg[k][1] = pattern
    THEN [k \in 1..Len(reg) |->
            IF reg[k][1] = pattern THEN <<pattern, Append(reg[k][2], cls)>> ELSE reg[k]]
    ELSE Append(reg, <<pattern, <<cls>>>>)

\* The outputs property of the Generator subclasses: topic -> type_ident.
Outputs(cls) ==
    CASE cls = "Echo" -> << <<"out/echo", "foxglove.Echo">> >>
      [] cls = "Listener" -> << <<"out/listener", "foxglove.Listener">> >>
      [] cls = "Faulty" -> << <<"out/faulty", "foxglove.Faulty">> >>
      [] cls = "Stamped" -> << <<"out/stamped", "foxglove.Stamped">> >>
      [] cls = "Unresolved" -> << <<"out/unresolved", "nosuchtype">> >>
      [] OTHER -> <<>>

\* The type_idents get_pb2 resolves to a protobuf class; for any other it raises
\* (ValueError, or what import_module raises).
ProtoTypes ==
    {"builtins/Time", "builtins/Duration", "foxglove.Echo", "foxglove.Listener",
     "foxglove.Faulty", "foxglove.Stamped"}

\* get_message_type(type_ident) raises: "res = get_pb2(type_ident)" raised, or
\* "if not res: raise ValueError(...)".
GetMessageTypeRaises(type_ident) == type_ident \notin ProtoTypes

\* reader.get_topic2pb2() raises: outputs_topic2type of one of the reader's
\* processors calls get_message_type on a type_ident that does not resolve.
GetTopic2Pb2Raises(procs) ==
    \E k \in 1..Len(procs) : \E o \in 1..Len(Outputs(procs[k].cls)) :
        GetMessageTypeRaises(Outputs(procs[k].cls)[o][2])

\* "chunk_size: int = 20"
DefaultChunkSize == 20

\* ------------------------------------------------------------------ heapq.merge
Lines(rs, i) == rs[i].lines

\* The readers whose iterator still has a record in the heap.
Live(rs, pos) == {i \in 1..Len(rs) : pos[i] <= Len(Lines(rs, i))}

HeapHead(rs, pos, i) == Lines(rs, i)[pos[i]]

\* heapq.merge keeps the entries [key(value), order, value, next]: the smaller
\* key first and, on equal keys, the reader added first.
HeapLess(rs, pos, i, j) ==
    \/ KeyLt(HeapHead(rs, pos, i), HeapHead(rs, pos, j))
    \/ /\ ~KeyLt(HeapHead(rs, pos, j), HeapHead(rs, pos, i))
       /\ i < j

\* The reader whose record heapq_ yields next.
HeapPop(rs, pos) ==
    CHOOSE i \in Live(rs, pos) :
        \A j \in Live(rs, pos) \ {i} : HeapLess(rs, pos, i, j)

InitPos(rs) == [i \in 1..Len(rs) |-> 1]

\* ------------------------------------------------------------------ get_merge_queue
\* "if ts < self.start_ts: continue"
BeforeStart(ts, s) == ts < s

PastEnd_Inclusive(ts, e) == ts >= e

\* "if ts > self.end_ts: break"
PastEnd(ts, e) == ts > e

\* One iteration of "for src_topic, msg, ts in heapq_".
GetMergeQueueStep ==
    /\ mq_pc = "loop"
    /\ IF Live(readers, heap_pos) = {}
       THEN /\ mq_pc' = "exhausted"
            /\ UNCHANGED <<heap_pos, merged, mq_out>>
       ELSE LET i == HeapPop(readers, heap_pos)
                r == HeapHead(readers, heap_pos, i)
            IN  /\ heap_pos' = [heap_pos EXCEPT ![i] = @ + 1]
                /\ merged' = Append(merged, r)
                /\ IF BeforeStart(Ts(r), start_ts)
                   THEN UNCHANGED <<mq_out, mq_pc>>
                   ELSE IF PastEnd(Ts(r), end_ts)
                        THEN /\ mq_pc' = "break"
                             /\ UNCHANGED mq_out
                        ELSE /\ mq_out' = Append(mq_out, r)
                             /\ UNCHANGED mq_pc
    /\ UNCHANGED notMerge

\* The whole of get_merge_queue as a function of its inputs: the sequence it
\* yields from the heap positions pos on.
RECURSIVE MergeFrom(_, _, _, _)
MergeFrom(rs, pos, s, e) ==
    IF Live(rs, pos) = {} THEN <<>>
    ELSE LET i == HeapPop(rs, pos)
             r == HeapHead(rs, pos, i)
             rest == [pos EXCEPT ![i] = @ + 1]
         IN  IF BeforeStart(Ts(r), s) THEN MergeFrom(rs, rest, s, e)
             ELSE IF PastEnd(Ts(r), e) THEN <<>>
             ELSE <<r>> \o MergeFrom(rs, rest, s, e)

get_merge_queue(rs, s, e) == MergeFrom(rs, InitPos(rs), s, e)

\* ------------------------------------------------------------------ chunk
\* Python's None as a slot of a buffer.
NoneSlot == <<>>

\* "i = None": no item enumerated yet.
NoneIndex == -1

\* "[None] * size"
NoneBuffer(size) == [k \in 1..size |-> NoneSlot]

\* "i = count % size"
ChunkIndex(count, size) == count % size

\* "if i == 0 and count != 0"
ChunkFull(i, count) == i = 0 /\ count # 0

ChunkLast_Short(buffer, i) == SubSeq(buffer, 1, i)

\* "buffer[:i + 1]"
ChunkLast(buffer, i) == SubSeq(buffer, 1, i + 1)

\* "buffer[i] = res" (Python indexes from 0)
BufferSet(buffer, i, res) == [buffer EXCEPT ![i + 1] = res]

\* One iteration of "for count, res in enumerate(gen)", or the code after the
\* loop once gen is exhausted.
ChunkStep ==
    /\ ck_pc = "loop"
    /\ IF ck_gen = <<>>
       THEN /\ ck_out' = IF ck_i # NoneIndex
                         THEN Append(ck_out, ChunkLast(ck_buffer, ck_i))
                         ELSE ck_out
            /\ ck_pc' = "done"
            /\ UNCHANGED <<ck_gen, ck_buffer, ck_i, ck_count>>
       ELSE LET i == ChunkIndex(ck_count, ck_size)
                full == ChunkFull(i, ck_count)
                buffer == IF full THEN NoneBuffer(ck_size) ELSE ck_buffer
            IN  /\ ck_i' = i
                /\ ck_out' = IF full THEN Append(ck_out, ck_buffer) ELSE ck_out
                /\ ck_buffer' = BufferSet(buffer, i, Head(ck_gen))
                /\ ck_gen' = Tail(ck_gen)
                /\ ck_count' = ck_count + 1
                /\ UNCHANGED ck_pc
    /\ UNCHANGED <<ck_in, ck_size>>
    /\ UNCHANGED notChunk

\* chunk(gen, size) as a function: the lists it yields from the loop state
\* (count, buffer, i) on.
RECURSIVE ChunkFrom(_, _, _, _, _)
ChunkFrom(gen, size, count, buffer, i) ==
    IF gen = <<>>
    THEN IF i # NoneIndex THEN <<ChunkLast(buffer, i)>> ELSE <<>>
    ELSE LET j == ChunkIndex(count, size)
             full == ChunkFull(j, count)
             fresh == IF full THEN NoneBuffer(size) ELSE buffer
         IN  (IF full THEN <<buffer>> ELSE <<>>)
             \o ChunkFrom(Tail(gen), size, count + 1, BufferSet(fresh, j, Head(gen)), j)

\* As chunk, with the last "yield buffer[:i + 1]" made also when gen was empty.
chunk_YieldEmpty(gen, size) ==
    IF gen = <<>> THEN << <<>> >>
    ELSE ChunkFrom(gen, size, 0, NoneBuffer(size), NoneIndex)

\* chunk(gen, size): "buffer = [None] * size; i = None" then the loop.
chunk(gen, size) == ChunkFrom(gen, size, 0, NoneBuffer(size), NoneIndex)

\* ------------------------------------------------------------------ filter
\* filter(iter): the "initialize" record with the timestamp of the first record
\* (0 when there is none), then the records.
filter(iter) ==
    IF iter = <<>>
    THEN << <<"initialize", None, 0>> >>
    ELSE << <<"initialize", None, Ts(Head(iter))>> >> \o iter

\* ------------------------------------------------------------------ format
Correlate_KeepFirst(last, r, listened) ==
    IF Topic(r) \in listened /\ Topic(r) \notin DOMAIN last
    THEN DictSet(last, Topic(r), Msg(r))
    ELSE last

Correlate_StoreAll(last, r, listened) == DictSet(last, Topic(r), Msg(r))

\* "if src_topic in LISTENED_TOPICS: self.last_msg[src_topic] = msg"
Correlate(last, r, listened) ==
    IF Topic(r) \in listened THEN DictSet(last, Topic(r), Msg(r)) ELSE last

\* "[self.last_msg.get(t) for t in processor.listen_to] if processor.listen_to
\* else ()"
ListenToMsg(last, processor) ==
    [k \in 1..Len(processor.listen_to) |-> DictGet(last, processor.listen_to[k])]

\* As Entries, the processors of the topic taken last to first.
Entries_Reversed(procs, r, last) ==
    LET n == Len(procs[Topic(r)])
    IN  [k \in 1..n |->
            <<Topic(r), n - k, Msg(r), ListenToMsg(last, procs[Topic(r)][n - k + 1]), Ts(r)>>]

\* As Entries, with an entry for a record whose topic has no processor.
Entries_PassThrough(procs, r, last) ==
    IF procs[Topic(r)] = <<>>
    THEN << <<Topic(r), 0, Msg(r), <<>>, Ts(r)>> >>
    ELSE [k \in 1..Len(procs[Topic(r)]) |->
            <<Topic(r), k - 1, Msg(r), ListenToMsg(last, procs[Topic(r)][k]), Ts(r)>>]

\* The entries (src_topic, i, msg, listen_to_msg, ts) format yields for a record,
\* one per processor of its topic, with self.last_msg = last.
Entries(procs, r, last) ==
    [k \in 1..Len(procs[Topic(r)]) |->
        <<Topic(r), k - 1, Msg(r), ListenToMsg(last, procs[Topic(r)][k]), Ts(r)>>]

\* One iteration of "for src_topic, msg, ts in iter" of format; once iter is
\* exhausted the entries are chunked for the workers.
FormatStep ==
    /\ fm_pc = "loop"
    /\ IF fm_iter = <<>>
       THEN /\ fm_pc' = "done"
            /\ pw_chunks' = chunk(fm_out, chunk_size)
            /\ UNCHANGED <<fm_iter, fm_taken, last_msg, fm_out, fm_src>>
       ELSE LET r == Head(fm_iter)
                last == Correlate(last_msg, r, LISTENED_TOPICS)
                entries == Entries(PROCESSORS, r, last)
            IN  /\ last_msg' = last
                /\ fm_out' = fm_out \o entries
                /\ fm_src' = fm_src \o [k \in 1..Len(entries) |-> Len(fm_taken) + 1]
                /\ fm_taken' = Append(fm_taken, r)
                /\ fm_iter' = Tail(fm_iter)
                /\ UNCHANGED <<fm_pc, pw_chunks>>
    /\ UNCHANGED <<pw_k, pw_reses, pw_buffer, pw_caught, pw_results, pw_pc>>
    /\ UNCHANGED notFormat

\* format(iter) as a function, from self.last_msg = last on.
RECURSIVE FormatFrom(_, _, _, _)
FormatFrom(iter, last, procs, listened) ==
    IF iter = <<>> THEN <<>>
    ELSE LET next == Correlate(last, Head(iter), listened)
         IN  Entries(procs, Head(iter), next)
             \o FormatFrom(Tail(iter), next, procs, listened)

\* "self.last_msg = {}" then format(iter)
format(iter, procs, listened) == FormatFrom(iter, EmptyDict, procs, listened)

\* ------------------------------------------------------------------ process_worker
\* PROCESSORS[src_topic][i](msg, ts, *listen_to_msg) for one entry.
EntryCall(procs, entry) ==
    GeneratorCall(procs[entry[1]][entry[2] + 1].cls, entry[3], entry[5], entry[4])

WorkerRest_Abort(reses, raised) == IF raised THEN <<>> ELSE Tail(reses)

\* What is left of "for ... in reses" after the first entry: "except Exception"
\* swallows what its call raised, so the loop goes on.
WorkerRest(reses, raised) == Tail(reses)

\* process_worker is called with the next batch.
ProcessWorkerCall ==
    /\ fm_pc = "done"
    /\ pw_pc = "idle"
    /\ pw_k < Len(pw_chunks)
    /\ pw_k' = pw_k + 1
    /\ pw_reses' = pw_chunks[pw_k + 1]
    /\ pw_buffer' = <<>>
    /\ pw_pc' = "loop"
    /\ UNCHANGED <<pw_chunks, pw_caught, pw_results>>
    /\ UNCHANGED <<formatVars>>
    /\ UNCHANGED notWorker

\* One iteration of "for src_topic, i, msg, listen_to_msg, ts in reses", or
\* "return buffer" after the loop.
ProcessWorkerStep ==
    /\ pw_pc = "loop"
    /\ IF pw_reses = <<>>
       THEN /\ pw_results' = Append(pw_results, pw_buffer)
            /\ pw_pc' = IF pw_k = Len(pw_chunks) THEN "done" ELSE "idle"
            /\ UNCHANGED <<pw_reses, pw_buffer, pw_caught>>
       ELSE LET c == EntryCall(PROCESSORS, Head(pw_reses))
                j == Len(pw_chunks[pw_k]) - Len(pw_reses) + 1
            IN  /\ pw_buffer' = pw_buffer \o c.yields
                /\ pw_caught' = IF c.raises THEN pw_caught \cup {<<pw_k, j>>}
                                            ELSE pw_caught
                /\ pw_reses' = WorkerRest(pw_reses, c.raises)
                /\ UNCHANGED <<pw_results, pw_pc>>
    /\ UNCHANGED <<pw_chunks, pw_k>>
    /\ UNCHANGED <<formatVars>>
    /\ UNCHANGED notWorker

\* process_worker(reses) as a function: the buffer it returns.
RECURSIVE process_worker(_, _)
process_worker(reses, procs) ==
    IF reses = <<>> THEN <<>>
    ELSE LET c == EntryCall(procs, Head(reses))
         IN  c.yields \o process_worker(WorkerRest(reses, c.raises), procs)

\* ------------------------------------------------------------------ a reader that raises
\* heapq.merge calls next() on a reader when it is first advanced and, again,
\* when it is resumed after yielding that reader's record.  The records
\* get_merge_queue yields until reader `bad` raises from next(), and whether
\* that happens (a break leaves heapq_ suspended for good).
RECURSIVE MergeRaising(_, _, _, _, _)
MergeRaising(rs, pos, s, e, bad) ==
    IF Live(rs, pos) = {} THEN [out |-> <<>>, raises |-> FALSE]
    ELSE LET i == HeapPop(rs, pos)
             r == HeapHead(rs, pos, i)
             rest == [pos EXCEPT ![i] = @ + 1]
             after == IF i = bad /\ rest[i] > Len(Lines(rs, i))
                      THEN [out |-> <<>>, raises |-> TRUE]
                      ELSE MergeRaising(rs, rest, s, e, bad)
         IN  IF BeforeStart(Ts(r), s) THEN after
             ELSE IF PastEnd(Ts(r), e) THEN [out |-> <<>>, raises |-> FALSE]
             ELSE [out |-> <<r>> \o after.out, raises |-> after.raises]

\* get_merge_queue with reader `bad` raising after its lines (0: no reader).
get_merge_queue_raising(rs, s, e, bad) ==
    IF bad = 0 THEN [out |-> get_merge_queue(rs, s, e), raises |-> FALSE]
    ELSE IF Lines(rs, bad) = <<>> THEN [out |-> <<>>, raises |-> TRUE]
    ELSE MergeRaising(rs, InitPos(rs), s, e, bad)

\* filter over an iterator that raises: "except StopIteration" does not catch
\* what the first next(iter) raises, so nothing is yielded then.
filter_raising(m) == IF m.out = <<>> /\ m.raises THEN <<>> ELSE filter(m.out)

\* chunk over a generator that raises once its items are used up: the lists
\* yielded before; the code after the loop is not reached.
RECURSIVE ChunkUntilRaise(_, _, _, _, _)
ChunkUntilRaise(gen, size, count, buffer, i) ==
    IF gen = <<>> THEN <<>>
    ELSE LET j == ChunkIndex(count, size)
             full == ChunkFull(j, count)
             fresh == IF full THEN NoneBuffer(size) ELSE buffer
         IN  (IF full THEN <<buffer>> ELSE <<>>)
             \o ChunkUntilRaise(Tail(gen), size, count + 1,
                                BufferSet(fresh, j, Head(gen)), j)

\* ------------------------------------------------------------------ queues
\* "queue.Queue(maxsize=20)" and "mp.Queue(maxsize=20)"
QueueMaxsize == 20

\* What travels on the queues: the sentinel None, the handle of a submitted
\* batch (an AsyncResult), or a ResultBatch with the batch it came from.
QNone == <<"None">>
QRef(k) == <<"ref", k>>
QList(k, msgs) == <<"list", msgs, k>>

IsNone(item) == item[1] = "None"

\* The batch an item belongs to; NoneId for the sentinel.
NoneId == 0

ItemId(item) ==
    CASE item[1] = "ref" -> item[2]
      [] item[1] = "list" -> item[3]
      [] OTHER -> NoneId

\* "while ref := ...": an AsyncResult is true, None is false.
Truthy(ref) == ~IsNone(ref)

HasRoom_Unbounded(q) == TRUE

\* put() on a full queue blocks until a slot is free.
HasRoom(q) == Len(q) < QueueMaxsize

\* ------------------------------------------------------------------ run (main thread)
\* run() up to the call of _read_line_and_insert_to_worker_pool: the pool is
\* created, the collector thread and the writer process are started.
RunStart ==
    /\ main_pc = "init"
    /\ worker_pool' = "running"
    /\ getter_pc' = "get"
    /\ writer_pc' = "enter"
    /\ main_pc' = "produce"
    /\ UNCHANGED <<concurrency, chunk_gen, prod_ref, pool_tasks, pool_results,
                   pool_ref_queue, getter_ref, getter_chunk, writer_queue,
                   writer_queue_closed, writer_msgs, writer_from, sink_state,
                   sink_lines, sink_from, sink_late, forwarded, overtaken, handed>>
    /\ UNCHANGED notPipe

\* "for chunk in self.chunk(...)": the next chunk is handed to apply_async, or
\* the generator is exhausted and the finally clause is entered.
ProducerNext ==
    /\ main_pc = "produce"
    /\ IF chunk_gen = <<>>
       THEN /\ main_pc' = "put_none"
            /\ UNCHANGED <<chunk_gen, prod_ref, pool_tasks, pool_results>>
       ELSE /\ pool_tasks' = Append(pool_tasks, Head(chunk_gen))
            /\ pool_results' = Append(pool_results, <<"pending">>)
            /\ prod_ref' = QRef(Len(pool_tasks) + 1)
            /\ chunk_gen' = Tail(chunk_gen)
            /\ main_pc' = "put_ref"
    /\ UNCHANGED <<concurrency, worker_pool, pool_ref_queue, getter_pc, getter_ref,
                   getter_chunk, writer_queue, writer_queue_closed, writer_pc,
                   writer_msgs, writer_from, sink_state, sink_lines, sink_from,
                   sink_late, forwarded, overtaken, handed>>
    /\ UNCHANGED notPipe

ProducerPut_NoWait ==
    /\ main_pc = "put_ref"
    /\ pool_ref_queue' = Append(pool_ref_queue, prod_ref)
    /\ handed' = Append(handed, ItemId(prod_ref))
    /\ main_pc' = "produce"
    /\ UNCHANGED <<concurrency, chunk_gen, prod_ref, worker_pool, pool_tasks,
                   pool_results, getter_pc, getter_ref, getter_chunk, writer_queue,
                   writer_queue_closed, writer_pc, writer_msgs, writer_from,
                   sink_state, sink_lines, sink_from, sink_late, forwarded, overtaken>>
    /\ UNCHANGED notPipe

\* "self.pool_ref_queue.put(ref)": blocks while the queue is full.
ProducerPut ==
    /\ main_pc = "put_ref"
    /\ HasRoom(pool_ref_queue)
    /\ pool_ref_queue' = Append(pool_ref_queue, prod_ref)
    /\ handed' = Append(handed, ItemId(prod_ref))
    /\ main_pc' = "produce"
    /\ UNCHANGED <<concurrency, chunk_gen, prod_ref, worker_pool, pool_tasks,
                   pool_results, getter_pc, getter_ref, getter_chunk, writer_queue,
                   writer_queue_closed, writer_pc, writer_msgs, writer_from,
                   sink_state, sink_lines, sink_from, sink_late, forwarded, overtaken>>
    /\ UNCHANGED notPipe

\* Whether the generator chain of the producer ends by raising.
GenRaises ==
    raising # 0 /\ get_merge_queue_raising(readers, start_ts, end_ts, raising).raises

ProducerPutNone_NoFinally ==
    /\ main_pc = "put_none"
    /\ HasRoom(pool_ref_queue)
    /\ pool_ref_queue' = IF gen_raises THEN pool_ref_queue ELSE Append(pool_ref_queue, QNone)
    /\ handed' = IF gen_raises THEN handed ELSE Append(handed, NoneId)
    /\ main_pc' = IF gen_raises THEN "raised" ELSE "join_getter"
    /\ UNCHANGED <<concurrency, chunk_gen, prod_ref, worker_pool, pool_tasks,
                   pool_results, getter_pc, getter_ref, getter_chunk, writer_queue,
                   writer_queue_closed, writer_pc, writer_msgs, writer_from,
                   sink_state, sink_lines, sink_from, sink_late, forwarded, overtaken>>
    /\ UNCHANGED notPipe

\* "finally: self.pool_ref_queue.put(None)"; what the loop raised then leaves
\* _read_line_and_insert_to_worker_pool and, nothing catching it, run().
ProducerPutNone ==
    /\ main_pc = "put_none"
    /\ HasRoom(pool_ref_queue)
    /\ pool_ref_queue' = Append(pool_ref_queue, QNone)
    /\ handed' = Append(handed, NoneId)
    /\ main_pc' = IF gen_raises THEN "raised" ELSE "join_getter"
    /\ UNCHANGED <<concurrency, chunk_gen, prod_ref, worker_pool, pool_tasks,
                   pool_results, getter_pc, getter_ref, getter_chunk, writer_queue,
                   writer_queue_closed, writer_pc, writer_msgs, writer_from,
                   sink_state, sink_lines, sink_from, sink_late, forwarded, overtaken>>
    /\ UNCHANGED notPipe

\* "self.pool_ref_getter_thread.join()" then "self.writer_queue.close()"
JoinGetter ==
    /\ main_pc = "join_getter"
    /\ getter_pc = "done"
    /\ writer_queue_closed' = TRUE
    /\ main_pc' = "join_writer"
    /\ UNCHANGED <<concurrency, chunk_gen, prod_ref, worker_pool, pool_tasks,
                   pool_results, pool_ref_queue, getter_pc, getter_ref, getter_chunk,
                   writer_queue, writer_pc, writer_msgs, writer_from, sink_state,
                   sink_lines, sink_from, sink_late, forwarded, overtaken, handed>>
    /\ UNCHANGED notPipe

JoinWriter_NoWait ==
    /\ main_pc = "join_writer"
    /\ worker_pool' = "closed"
    /\ main_pc' = "pool_join"
    /\ UNCHANGED <<concurrency, chunk_gen, prod_ref, pool_tasks, pool_results,
                   pool_ref_queue, getter_pc, getter_ref, getter_chunk, writer_queue,
                   writer_queue_closed, writer_pc, writer_msgs, writer_from,
                   sink_state, sink_lines, sink_from, sink_late, forwarded, overtaken, handed>>
    /\ UNCHANGED notPipe

\* "self.writer_process.join()" then "self.worker_pool.close()"; join returns
\* once the process has ended, whatever its exit code.
JoinWriter ==
    /\ main_pc = "join_writer"
    /\ writer_pc \in {"done", "failed"}
    /\ worker_pool' = "closed"
    /\ main_pc' = "pool_join"
    /\ UNCHANGED <<concurrency, chunk_gen, prod_ref, pool_tasks, pool_results,
                   pool_ref_queue, getter_pc, getter_ref, getter_chunk, writer_queue,
                   writer_queue_closed, writer_pc, writer_msgs, writer_from,
                   sink_state, sink_lines, sink_from, sink_late, forwarded, overtaken, handed>>
    /\ UNCHANGED notPipe

\* The tasks of the pool that have not finished.
Unfinished == {k \in 1..Len(pool_tasks) : pool_results[k] = <<"pending">>}

\* "self.worker_pool.join()": the workers leave once every task is done; run()
\* returns.
PoolJoin ==
    /\ main_pc = "pool_join"
    /\ Unfinished = {}
    /\ worker_pool' = "joined"
    /\ main_pc' = "returned"
    /\ UNCHANGED <<concurrency, chunk_gen, prod_ref, pool_tasks, pool_results,
                   pool_ref_queue, getter_pc, getter_ref, getter_chunk, writer_queue,
                   writer_queue_closed, writer_pc, writer_msgs, writer_from,
                   sink_state, sink_lines, sink_from, sink_late, forwarded, overtaken, handed>>
    /\ UNCHANGED notPipe

\* ------------------------------------------------------------------ worker pool
Running_Stalled == {k \in Unfinished : k <= concurrency}

\* The pool's processes take the tasks in submission order, one each, so the
\* tasks being run are the first `concurrency` unfinished ones.
Running == {k \in Unfinished : Cardinality({j \in Unfinished : j < k}) < concurrency}

\* A worker returns process_worker(chunk) for the task k it runs.
WorkerFinish(k) ==
    /\ worker_pool \in {"running", "closed"}
    /\ k \in Running
    /\ pool_results' =
          [pool_results EXCEPT ![k] = <<"ready", process_worker(pool_tasks[k], PROCESSORS)>>]
    /\ overtaken' = (overtaken \/ \E j \in Unfinished : j < k)
    /\ UNCHANGED <<concurrency, main_pc, chunk_gen, prod_ref, worker_pool, pool_tasks,
                   pool_ref_queue, getter_pc, getter_ref, getter_chunk, writer_queue,
                   writer_queue_closed, writer_pc, writer_msgs, writer_from,
                   sink_state, sink_lines, sink_from, sink_late, forwarded, handed>>
    /\ UNCHANGED notPipe

\* ------------------------------------------------------------------ pool_ref_getter
\* "while ref := self.pool_ref_queue.get()"
GetterGet ==
    /\ getter_pc = "get"
    /\ pool_ref_queue # <<>>
    /\ pool_ref_queue' = Tail(pool_ref_queue)
    /\ getter_ref' = Head(pool_ref_queue)
    /\ getter_pc' = IF Truthy(Head(pool_ref_queue)) THEN "ref_get" ELSE "put_none"
    /\ UNCHANGED <<concurrency, main_pc, chunk_gen, prod_ref, worker_pool, pool_tasks,
                   pool_results, getter_chunk, writer_queue, writer_queue_closed,
                   writer_pc, writer_msgs, writer_from, sink_state, sink_lines,
                   sink_from, sink_late, forwarded, overtaken, handed>>
    /\ UNCHANGED notPipe

\* The tasks that have finished.
Ready(results) == {k \in 1..Len(results) : results[k][1] = "ready"}

AwaitedTask_LatestDone(ref, results) ==
    IF \E k \in Ready(results) : k > ref[2]
    THEN CHOOSE k \in Ready(results) : \A j \in Ready(results) : j <= k
    ELSE ref[2]

\* The task whose result ref.get() returns: the one ref was made for, whatever
\* other tasks have finished.
AwaitedTask(ref, results) == ref[2]

GetterRefGet_StopOnEmpty ==
    /\ getter_pc = "ref_get"
    /\ AwaitedTask(getter_ref, pool_results) \in Ready(pool_results)
    /\ IF \/ AwaitedTask(getter_ref, pool_results) = get_raises
          \/ pool_results[AwaitedTask(getter_ref, pool_results)][2] = <<>>
       THEN /\ getter_pc' = "put_none"
            /\ UNCHANGED getter_chunk
       ELSE /\ getter_chunk' = QList(AwaitedTask(getter_ref, pool_results),
                                     pool_results[AwaitedTask(getter_ref, pool_results)][2])
            /\ getter_pc' = "put"
    /\ UNCHANGED <<concurrency, main_pc, chunk_gen, prod_ref, worker_pool, pool_tasks,
                   pool_results, pool_ref_queue, getter_ref, writer_queue,
                   writer_queue_closed, writer_pc, writer_msgs, writer_from,
                   sink_state, sink_lines, sink_from, sink_late, forwarded, overtaken, handed>>
    /\ UNCHANGED notPipe

\* "chunk = ref.get()": waits until the task is done; when it raises, the loop
\* is left for the finally clause.
GetterRefGet ==
    /\ getter_pc = "ref_get"
    /\ AwaitedTask(getter_ref, pool_results) \in Ready(pool_results)
    /\ IF AwaitedTask(getter_ref, pool_results) = get_raises
       THEN /\ getter_pc' = "put_none"
            /\ UNCHANGED getter_chunk
       ELSE /\ getter_chunk' = QList(AwaitedTask(getter_ref, pool_results),
                                     pool_results[AwaitedTask(getter_ref, pool_results)][2])
            /\ getter_pc' = "put"
    /\ UNCHANGED <<concurrency, main_pc, chunk_gen, prod_ref, worker_pool, pool_tasks,
                   pool_results, pool_ref_queue, getter_ref, writer_queue,
                   writer_queue_closed, writer_pc, writer_msgs, writer_from,
                   sink_state, sink_lines, sink_from, sink_late, forwarded, overtaken, handed>>
    /\ UNCHANGED notPipe

\* "self.writer_queue.put(chunk)"
GetterPut ==
    /\ getter_pc = "put"
    /\ HasRoom(writer_queue)
    /\ writer_queue' = Append(writer_queue, getter_chunk)
    /\ forwarded' = Append(forwarded, ItemId(getter_chunk))
    /\ getter_pc' = "get"
    /\ UNCHANGED <<concurrency, main_pc, chunk_gen, prod_ref, worker_pool, pool_tasks,
                   pool_results, pool_ref_queue, getter_ref, getter_chunk,
                   writer_queue_closed, writer_pc, writer_msgs, writer_from,
                   sink_state, sink_lines, sink_from, sink_late, overtaken, handed>>
    /\ UNCHANGED notPipe

GetterFinally_Skip(q) == q

\* "finally: self.writer_queue.put(None)"
GetterFinally(q) == Append(q, QNone)

\* The finally clause of pool_ref_getter; the thread ends.
GetterPutNone ==
    /\ getter_pc = "put_none"
    /\ HasRoom(writer_queue)
    /\ writer_queue' = GetterFinally(writer_queue)
    /\ forwarded' = Append(forwarded, NoneId)
    /\ getter_pc' = "done"
    /\ UNCHANGED <<concurrency, main_pc, chunk_gen, prod_ref, worker_pool, pool_tasks,
                   pool_results, pool_ref_queue, getter_ref, getter_chunk,
                   writer_queue_closed, writer_pc, writer_msgs, writer_from,
                   sink_state, sink_lines, sink_from, sink_late, overtaken, handed>>
    /\ UNCHANGED notPipe

\* ------------------------------------------------------------------ writer_process
WriterEnter_NoSetup ==
    /\ writer_pc = "enter"
    /\ writer_pc' = "get"
    /\ UNCHANGED <<concurrency, main_pc, chunk_gen, prod_ref, worker_pool, pool_tasks,
                   pool_results, pool_ref_queue, getter_pc, getter_ref, getter_chunk,
                   writer_queue, writer_queue_closed, writer_msgs, writer_from,
                   sink_state, sink_lines, sink_from, sink_late, forwarded, overtaken,
                   handed>>
    /\ UNCHANGED notPipe

\* "with writer:" : __enter__ calls writer.setup()
WriterEnter ==
    /\ writer_pc = "enter"
    /\ sink_state' = "open"
    /\ writer_pc' = "get"
    /\ UNCHANGED <<concurrency, main_pc, chunk_gen, prod_ref, worker_pool, pool_tasks,
                   pool_results, pool_ref_queue, getter_pc, getter_ref, getter_chunk,
                   writer_queue, writer_queue_closed, writer_msgs, writer_from,
                   sink_lines, sink_from, sink_late, forwarded, overtaken, handed>>
    /\ UNCHANGED notPipe

WriterStops_Falsy(msgs) == IsNone(msgs) \/ msgs[2] = <<>>

\* "(msgs := ...) is not None": only None ends writer_queue_iter; a list, even
\* an empty one, is iterated.
WriterStops(msgs) == IsNone(msgs)

\* "while (msgs := writer_queue.get()) is not None"
WriterGet ==
    /\ writer_pc = "get"
    /\ writer_queue # <<>>
    /\ writer_queue' = Tail(writer_queue)
    /\ IF WriterStops(Head(writer_queue))
       THEN /\ writer_pc' = "exit"
            /\ UNCHANGED <<writer_msgs, writer_from>>
       ELSE /\ writer_msgs' = Head(writer_queue)[2]
            /\ writer_from' = Head(writer_queue)[3]
            /\ writer_pc' = IF Head(writer_queue)[2] = <<>> THEN "get" ELSE "write"
    /\ UNCHANGED <<concurrency, main_pc, chunk_gen, prod_ref, worker_pool, pool_tasks,
                   pool_results, pool_ref_queue, getter_pc, getter_ref, getter_chunk,
                   writer_queue_closed, sink_state, sink_lines, sink_from, sink_late,
                   forwarded, overtaken, handed>>
    /\ UNCHANGED notPipe

\* "for msg in msgs: yield msg" and "writer(*item)": one line is written, or
\* write_line raises and the with block is left by the exception.
WriterWrite ==
    /\ writer_pc = "write"
    /\ IF Len(sink_lines) + 1 = write_raises
       THEN /\ writer_pc' = "unwind"
            /\ UNCHANGED <<sink_lines, sink_from, sink_late, writer_msgs>>
       ELSE /\ sink_lines' = Append(sink_lines, Head(writer_msgs))
            /\ sink_from' = Append(sink_from, writer_from)
            /\ sink_late' = (sink_late \/ sink_state # "open")
            /\ writer_msgs' = Tail(writer_msgs)
            /\ writer_pc' = IF Tail(writer_msgs) = <<>> THEN "get" ELSE "write"
    /\ UNCHANGED <<concurrency, main_pc, chunk_gen, prod_ref, worker_pool, pool_tasks,
                   pool_results, pool_ref_queue, getter_pc, getter_ref, getter_chunk,
                   writer_queue, writer_queue_closed, writer_from, sink_state,
                   forwarded, overtaken, handed>>
    /\ UNCHANGED notPipe

\* The with block is left: __exit__ calls writer.close(); the process ends,
\* with the exception of write_line uncaught if there was one.
WriterExit ==
    /\ writer_pc \in {"exit", "unwind"}
    /\ sink_state' = "closed"
    /\ writer_pc' = IF writer_pc = "exit" THEN "done" ELSE "failed"
    /\ UNCHANGED <<concurrency, main_pc, chunk_gen, prod_ref, worker_pool, pool_tasks,
                   pool_results, pool_ref_queue, getter_pc, getter_ref, getter_chunk,
                   writer_queue, writer_queue_closed, writer_msgs, writer_from,
                   sink_lines, sink_from, sink_late, forwarded, overtaken, handed>>
    /\ UNCHANGED notPipe

\* ------------------------------------------------------------------ inputs
\* A reader yields its records in non-decreasing timestamp order.
SortedByTs(s) == \A i \in 1..Len(s) - 1 : Ts(s[i]) <= Ts(s[i + 1])

\* generate_line yields (self.raw_topic, payload, ts).
LinesOf(t) == {t} \X Payloads \X Timestamps

SortedLines(t) ==
    UNION {{s \in [1..n -> LinesOf(t)] : SortedByTs(s)} : n \in 0..MaxLen}

ReadersOf(topics) ==
    UNION {{[raw_topic |-> t, lines |-> s] : s \in SortedLines(t)} : t \in topics}

\* The time windows: none, or [s, e] with timestamps of the model.
Windows ==
    {<<NegInf, PosInf>>} \cup (Timestamps \X Timestamps)

\* Nothing registered.
NoRegistry == <<>>

\* Registrations with listeners: a transform on "pose" that listens to "pose",
\* and transforms on the other topics that listen to "pose" or raise.
RegistryListen ==
    << <<"pose", <<"Listener">>>>,
       <<"topic*", <<"Faulty", "Listener">>>>,
       <<"derived", <<"Listener", "Echo">>>> >>

\* Registrations without listeners, one pattern matching every topic.
RegistryPlain ==
    << <<"*", <<"Faulty">>>>,
       <<"pose", <<"Silent">>>>,
       <<"derived", <<"Stamped">>>> >>

\* One transform per "pose" record; no pattern matches the other topics.
RegistryEcho == << <<"pose", <<"Echo">>>> >>

\* ------------------------------------------------------------------ idle stages
IdleMerge ==
    /\ heap_pos = <<>>
    /\ merged = <<>>
    /\ mq_out = <<>>
    /\ mq_pc = "exhausted"

IdleChunk ==
    /\ ck_gen = <<>>
    /\ ck_in = <<>>
    /\ ck_size = 1
    /\ ck_buffer = <<>>
    /\ ck_i = NoneIndex
    /\ ck_count = 0
    /\ ck_out = <<>>
    /\ ck_pc = "done"

IdleFormat ==
    /\ fm_iter = <<>>
    /\ fm_taken = <<>>
    /\ last_msg = EmptyDict
    /\ fm_out = <<>>
    /\ fm_src = <<>>
    /\ fm_pc = "done"

IdleWorker ==
    /\ pw_chunks = <<>>
    /\ pw_k = 0
    /\ pw_reses = <<>>
    /\ pw_buffer = <<>>
    /\ pw_caught = {}
    /\ pw_results = <<>>
    /\ pw_pc = "done"

IdlePipe ==
    /\ concurrency = 1
    /\ main_pc = "returned"
    /\ chunk_gen = <<>>
    /\ prod_ref = QNone
    /\ worker_pool = "joined"
    /\ pool_tasks = <<>>
    /\ pool_results = <<>>
    /\ pool_ref_queue = <<>>
    /\ getter_pc = "done"
    /\ getter_ref = QNone
    /\ getter_chunk = QNone
    /\ writer_queue = <<>>
    /\ writer_queue_closed = TRUE
    /\ writer_pc = "done"
    /\ writer_msgs = <<>>
    /\ writer_from = 0
    /\ sink_state = "closed"
    /\ sink_lines = <<>>
    /\ sink_from = <<>>
    /\ sink_late = FALSE
    /\ forwarded = <<>>
    /\ overtaken = FALSE
    /\ handed = <<>>

\* Nothing raises.
IdleFault ==
    /\ raising = 0
    /\ write_raises = 0
    /\ gen_raises = FALSE
    /\ get_raises = 0

\* writer.topic2pb2 before set_topic2pb2 is called.
NoTable == <<>>

\* self.output_topic2pb2 after set_readers: output topic -> type, of the outputs
\* of every processor a reader brought.
OutputTopic2Pb2(procs) ==
    UNION {UNION {{Outputs(procs[t][k].cls)[o] : o \in 1..Len(Outputs(procs[t][k].cls))} :
                  k \in 1..Len(procs[t])} : t \in AllTopics}

\* Construction is over: set_writer has handed the table to the writer.
IdleSetup ==
    /\ su_pc = "constructed"
    /\ su_calls = <<>>
    /\ su_todo = <<>>
    /\ writer_topic2pb2 = <<OutputTopic2Pb2(PROCESSORS)>>

\* ------------------------------------------------------------------ setup
\* The register() calls and the readers of the model's constructions.
MaxCalls == 3
MaxReaders == 2
Patterns == {"pose", "topic*", "*"}
Registered == {"Echo", "Listener", "Unresolved"}
ReaderTopics == {"pose", "topicX"}

\* A visualizer module is imported: @register(pattern) decorates cls.
Register(pattern, cls) ==
    /\ su_pc = "import"
    /\ Len(su_calls) < MaxCalls
    /\ registry' = register(registry, pattern, cls)
    /\ su_calls' = Append(su_calls, <<pattern, cls>>)
    /\ UNCHANGED <<readers, PROCESSORS, LISTENED_TOPICS, su_pc, su_todo, writer_topic2pb2>>
    /\ UNCHANGED notSetup

\* BasePipeline(...): __post_init__ calls setup, which starts with
\* "self.readers = []" and calls set_readers.
SetupStart ==
    /\ su_pc = "import"
    /\ su_pc' = "set_readers"
    /\ readers' = <<>>
    /\ UNCHANGED <<registry, PROCESSORS, LISTENED_TOPICS, su_calls, su_todo,
                   writer_topic2pb2>>
    /\ UNCHANGED notSetup

\* set_readers constructs its next reader (match_processors) and calls
\* _add_reader on it; get_topic2pb2 may raise, after the reader was appended.
AddReaderStep ==
    /\ su_pc = "set_readers"
    /\ su_todo # <<>>
    /\ LET reader == [raw_topic |-> Head(su_todo), lines |-> <<>>]
           g == AddReader([PROCESSORS |-> PROCESSORS,
                           LISTENED_TOPICS |-> LISTENED_TOPICS], registry, reader)
       IN  /\ readers' = Append(readers, reader)
           /\ IF GetTopic2Pb2Raises(ReaderProcessors(registry, reader))
              THEN /\ su_pc' = "raised"
                   /\ UNCHANGED <<PROCESSORS, LISTENED_TOPICS>>
              ELSE /\ PROCESSORS' = g.PROCESSORS
                   /\ LISTENED_TOPICS' = g.LISTENED_TOPICS
                   /\ UNCHANGED su_pc
    /\ su_todo' = Tail(su_todo)
    /\ UNCHANGED <<registry, su_calls, writer_topic2pb2>>
    /\ UNCHANGED notSetup

\* set_readers returned: set_writer calls writer.set_topic2pb2, then the threads,
\* queues and the writer process are created (none is started before run()).
SetupDone ==
    /\ su_pc = "set_readers"
    /\ su_todo = <<>>
    /\ su_pc' = "constructed"
    /\ writer_topic2pb2' = <<OutputTopic2Pb2(PROCESSORS)>>
    /\ UNCHANGED <<registry, readers, PROCESSORS, LISTENED_TOPICS, su_calls, su_todo>>
    /\ UNCHANGED notSetup

\* ------------------------------------------------------------------ SpecMerge
\* get_merge_queue over two readers and a time window.
InitMerge ==
    /\ \E a \in ReadersOf({"topicX", "topicY"}), b \in ReadersOf({"topicX", "topicY"}),
          w \in Windows :
            Configured(NoRegistry, <<a, b>>, w[1], w[2], DefaultChunkSize)
    /\ heap_pos = InitPos(readers)
    /\ merged = <<>>
    /\ mq_out = <<>>
    /\ mq_pc = "loop"
    /\ IdleChunk /\ IdleFormat /\ IdleWorker /\ IdlePipe /\ IdleFault /\ IdleSetup

NextMerge == GetMergeQueueStep

SpecMerge == InitMerge /\ [][NextMerge]_vars

\* ------------------------------------------------------------------ SpecChunk
\* The longest input and the largest size drawn for chunk.
MaxChunkIn == 7
MaxChunkSize == 3

\* n batch entries (src_topic, i, msg, listen_to_msg, ts), all different.
ChunkInput(n) == [k \in 1..n |-> <<"topicX", 0, k, <<>>, 10>>]

\* chunk over n entries with a size.
InitChunk ==
    /\ Configured(NoRegistry, <<>>, NegInf, PosInf, DefaultChunkSize)
    /\ ck_in \in {ChunkInput(n) : n \in 0..MaxChunkIn}
    /\ ck_gen = ck_in
    /\ ck_size \in 1..MaxChunkSize
    /\ ck_buffer = NoneBuffer(ck_size)
    /\ ck_i = NoneIndex
    /\ ck_count = 0
    /\ ck_out = <<>>
    /\ ck_pc = "loop"
    /\ IdleMerge /\ IdleFormat /\ IdleWorker /\ IdlePipe /\ IdleFault /\ IdleSetup

NextChunk == ChunkStep

SpecChunk == InitChunk /\ [][NextChunk]_vars

\* ------------------------------------------------------------------ SpecFormat
\* chunk_size of the runs of format and process_worker.
WorkerChunkSize == 2

FormatWindows == {<<NegInf, PosInf>>, <<20, 30>>}

\* format over filter(get_merge_queue()), then process_worker on each batch.
InitFormat ==
    /\ \E reg \in {RegistryListen, RegistryPlain, RegistryEcho},
          a \in ReadersOf({"pose"}), b \in ReadersOf({"topicX", "derived"}),
          w \in FormatWindows :
            Configured(reg, <<a, b>>, w[1], w[2], WorkerChunkSize)
    /\ fm_iter = filter(get_merge_queue(readers, start_ts, end_ts))
    /\ fm_taken = <<>>
    /\ last_msg = EmptyDict
    /\ fm_out = <<>>
    /\ fm_src = <<>>
    /\ fm_pc = "loop"
    /\ pw_chunks = <<>>
    /\ pw_k = 0
    /\ pw_reses = <<>>
    /\ pw_buffer = <<>>
    /\ pw_caught = {}
    /\ pw_results = <<>>
    /\ pw_pc = "idle"
    /\ IdleMerge /\ IdleChunk /\ IdlePipe /\ IdleFault /\ IdleSetup

NextFormat ==
    \/ FormatStep
    \/ ProcessWorkerCall
    \/ ProcessWorkerStep

SpecFormat == InitFormat /\ [][NextFormat]_vars

\* ------------------------------------------------------------------ Spec
\* The largest number of pool processes drawn.
MaxWorkers == 2
\* The records of the long input, one batch each: more than a queue holds.
LongLen == 21

\* The short inputs: up to MaxLen "pose" records and up to one "topicX" record.
ShortPose ==
    UNION {[1..n -> {"pose"} \X Payloads \X {10}] : n \in 0..MaxLen}

ShortX == {<<>>, << <<"topicX", "a2", 20>> >>}

LongPose == [k \in 1..LongLen |-> <<"pose", "a1", 10>>]

\* The chunks the generator chain of _read_line_and_insert_to_worker_pool yields.
Chunks ==
    chunk(format(filter(get_merge_queue(readers, start_ts, end_ts)),
                 PROCESSORS, LISTENED_TOPICS),
          chunk_size)

\* What the chunk generator yields before it ends or raises.
ChunkGen ==
    IF GenRaises
    THEN ChunkUntilRaise(
             format(filter_raising(
                        get_merge_queue_raising(readers, start_ts, end_ts, raising)),
                    PROCESSORS, LISTENED_TOPICS),
             chunk_size, 0, NoneBuffer(chunk_size), NoneIndex)
    ELSE Chunks

\* Nothing of the pipeline has been started: no pool, no thread, no process.
NotStarted ==
    /\ main_pc = "init"
    /\ prod_ref = QNone
    /\ worker_pool = "none"
    /\ pool_tasks = <<>>
    /\ pool_results = <<>>
    /\ pool_ref_queue = <<>>
    /\ getter_pc = "idle"
    /\ getter_ref = QNone
    /\ getter_chunk = QNone
    /\ writer_queue = <<>>
    /\ writer_queue_closed = FALSE
    /\ writer_pc = "idle"
    /\ writer_msgs = <<>>
    /\ writer_from = 0
    /\ sink_state = "new"
    /\ sink_lines = <<>>
    /\ sink_from = <<>>
    /\ sink_late = FALSE
    /\ forwarded = <<>>
    /\ overtaken = FALSE
    /\ handed = <<>>

\* run() has not been called yet.
BeforeRun ==
    /\ NotStarted
    /\ chunk_gen = ChunkGen
    /\ IdleMerge /\ IdleChunk /\ IdleFormat /\ IdleWorker /\ IdleSetup

\* The time windows of the runs: none, and one that starts after every record
\* of the short inputs.
PipeWindows == {<<NegInf, PosInf>>, <<30, PosInf>>}

\* The state after construction (BasePipeline.setup), run() not yet called.
InitPipe ==
    /\ \/ /\ \E reg \in {RegistryListen, RegistryPlain}, a \in ShortPose, b \in ShortX,
                size \in {1, WorkerChunkSize}, w \in PipeWindows :
                  Configured(reg,
                             <<[raw_topic |-> "pose", lines |-> a],
                               [raw_topic |-> "topicX", lines |-> b]>>,
                             w[1], w[2], size)
          /\ concurrency \in 1..MaxWorkers
       \/ /\ Configured(RegistryEcho, <<[raw_topic |-> "pose", lines |-> LongPose]>>,
                        NegInf, PosInf, 1)
          /\ concurrency = 1
    /\ IdleFault
    /\ BeforeRun

Main ==
    \/ RunStart
    \/ ProducerNext
    \/ ProducerPut
    \/ ProducerPutNone
    \/ JoinGetter
    \/ JoinWriter
    \/ PoolJoin

Workers == \E k \in 1..Len(pool_tasks) : WorkerFinish(k)

Getter ==
    \/ GetterGet
    \/ GetterRefGet
    \/ GetterPut
    \/ GetterPutNone

Writer ==
    \/ WriterEnter
    \/ WriterGet
    \/ WriterWrite
    \/ WriterExit

Next ==
    \/ Main
    \/ Workers
    \/ Getter
    \/ Writer

Spec == InitPipe /\ [][Next]_vars

\* ------------------------------------------------------------------ SpecLive
\* While the main thread, a pool process, the collector thread or the writer
\* process can take a step, one of them is eventually scheduled. Every thread
\* and process being scheduled fairly implies it.
Fairness == WF_vars(Next)

SpecLive == InitPipe /\ [][Next]_vars /\ Fairness

\* ------------------------------------------------------------------ SpecAhead
\* The batches of the input that outruns the queues: more than pool_ref_queue,
\* the producer and the collector thread can hold together.
AheadLen == 23

AheadPose == [k \in 1..AheadLen |-> <<"pose", "a1", 10>>]

\* run() on that input, one record per batch, with one pool process.
InitAhead ==
    /\ Configured(RegistryEcho, <<[raw_topic |-> "pose", lines |-> AheadPose]>>,
                  NegInf, PosInf, 1)
    /\ concurrency = 1
    /\ IdleFault
    /\ BeforeRun

SpecAhead == InitAhead /\ [][Next]_vars

\* ------------------------------------------------------------------ SpecFail
\* What fails in a run: one reader raises after its lines, one call of
\* write_line raises, or ref.get() raises for one batch.
Faults == {<<1, 0, 0>>, <<2, 0, 0>>, <<0, 1, 0>>, <<0, 2, 0>>, <<0, 0, 1>>, <<0, 0, 2>>}

\* The faults of the long input: the first write, or the first ref.get().
LongFaults == {<<0, 1, 0>>, <<0, 0, 1>>}

\* run() where a reader, the sink or the retrieval of a result fails: the short
\* inputs, and the long input with the first write or ref.get() failing.
InitFail ==
    /\ \/ /\ \E a \in ShortPose, b \in ShortX, size \in {1, WorkerChunkSize} :
                  Configured(RegistryListen,
                             <<[raw_topic |-> "pose", lines |-> a],
                               [raw_topic |-> "topicX", lines |-> b]>>,
                             NegInf, PosInf, size)
          /\ concurrency \in 1..MaxWorkers
          /\ \E f \in Faults :
                raising = f[1] /\ write_raises = f[2] /\ get_raises = f[3]
          /\ gen_raises = GenRaises
       \/ /\ Configured(RegistryEcho, <<[raw_topic |-> "pose", lines |-> LongPose]>>,
                        NegInf, PosInf, 1)
          /\ concurrency = 1
          /\ \E f \in LongFaults :
                raising = f[1] /\ write_raises = f[2] /\ get_raises = f[3]
          /\ gen_raises = FALSE
    /\ BeforeRun

SpecFail == InitFail /\ [][Next]_vars /\ Fairness

\* ------------------------------------------------------------------ SpecSetup
\* The sequences of at most n topics set_readers may add readers for.
RECURSIVE TopicSeqs(_)
TopicSeqs(n) ==
    IF n = 0 THEN {<<>>}
    ELSE TopicSeqs(n - 1)
         \cup {Append(q, t) : q \in {x \in TopicSeqs(n - 1) : Len(x) = n - 1},
                              t \in ReaderTopics}

\* The interpreter before any visualizer module is imported: an empty registry
\* and empty module globals; no pipeline has been constructed.
InitSetup ==
    /\ registry = <<>>
    /\ readers = <<>>
    /\ PROCESSORS = NoProcessors.PROCESSORS
    /\ LISTENED_TOPICS = NoProcessors.LISTENED_TOPICS
    /\ start_ts = NegInf
    /\ end_ts = PosInf
    /\ chunk_size = DefaultChunkSize
    /\ su_pc = "import"
    /\ su_calls = <<>>
    /\ su_todo \in TopicSeqs(MaxReaders)
    /\ writer_topic2pb2 = NoTable
    /\ concurrency = 1
    /\ chunk_gen = <<>>
    /\ NotStarted
    /\ IdleMerge /\ IdleChunk /\ IdleFormat /\ IdleWorker /\ IdleFault

NextSetup ==
    \/ \E pattern \in Patterns, cls \in Registered : Register(pattern, cls)
    \/ SetupStart
    \/ AddReaderStep
    \/ SetupDone

SpecSetup == InitSetup /\ [][NextSetup]_vars

\* ------------------------------------------------------------------ claims: merge
NonDecreasing(s) == \A i \in 1..Len(s) - 1 : Ts(s[i]) <= Ts(s[i + 1])

\* C2: for readers that are each non-decreasing in timestamp, the sequence
\* get_merge_queue yields is globally non-decreasing in timestamp, whatever the
\* topics and payloads.
C2_MergeNonDecreasing == NonDecreasing(mq_out)

InWindow(r) == start_ts <= Ts(r) /\ Ts(r) <= end_ts

\* The merged records past end_ts that the loop has taken from heapq_.
PastEndTaken == {k \in 1..Len(merged) : Ts(merged[k]) > end_ts}

\* The merged records taken before the first one past end_ts.
BeforeFirstPastEnd ==
    IF PastEndTaken = {} THEN merged
    ELSE SubSeq(merged, 1, (CHOOSE k \in PastEndTaken : \A j \in PastEndTaken : k <= j) - 1)

\* C4: get_merge_queue yields no record before start_ts and none after end_ts;
\* of the merged records up to the first one past end_ts it yields exactly those
\* with start_ts <= ts <= end_ts (the one at exactly end_ts included); and from
\* the first merged record past end_ts on it yields nothing more from any
\* reader: within a window start_ts <= end_ts the loop has ended there.
C4_WindowAndStop ==
    /\ \A i \in 1..Len(mq_out) : ~(Ts(mq_out[i]) < start_ts) /\ ~(Ts(mq_out[i]) > end_ts)
    /\ mq_out = SelectSeq(BeforeFirstPastEnd, InWindow)
    /\ start_ts <= end_ts => PastEndTaken \subseteq {Len(merged)}
    /\ start_ts <= end_ts => ((PastEndTaken # {}) <=> (mq_pc = "break"))
    /\ mq_pc = "break" => PastEndTaken # {} /\ ~ENABLED GetMergeQueueStep

\* C4 witness: the loop broke on a record past end_ts while another reader still
\* had records, after skipping one before start_ts and yielding one at end_ts.
C4_Witness ==
    /\ mq_pc = "break"
    /\ Live(readers, heap_pos) # {}
    /\ \E i \in 1..Len(mq_out) : Ts(mq_out[i]) = end_ts
    /\ \E k \in 1..Len(merged) : Ts(merged[k]) < start_ts

\* The step took the record at the head of reader i while reader j, added to the
\* pipeline before i, held a record with the same timestamp, both in the window.
Overtakes(i, j) ==
    /\ j < i
    /\ {i, j} \subseteq Live(readers, heap_pos)
    /\ heap_pos' = [heap_pos EXCEPT ![i] = @ + 1]
    /\ Ts(HeapHead(readers, heap_pos, j)) = Ts(HeapHead(readers, heap_pos, i))
    /\ InWindow(HeapHead(readers, heap_pos, i))

\* C20: of two records with equal timestamps held by different readers,
\* get_merge_queue yields first the one of the reader that was added to the
\* pipeline first, whatever the topics and payloads: no step takes a record
\* while a reader added earlier holds one with the same timestamp.
C20_TiesBySourceOrder ==
    [][\A i \in 1..Len(readers), j \in 1..Len(readers) : ~Overtakes(i, j)]_vars

\* ------------------------------------------------------------------ claims: chunk
RECURSIVE Flatten(_)
Flatten(ss) == IF ss = <<>> THEN <<>> ELSE Head(ss) \o Flatten(Tail(ss))

CeilDiv(n, c) == (n + c - 1) \div c

\* C7: for an input of n >= 0 entries and a size c >= 1, chunk yields ceil(n/c)
\* lists whose concatenation is the input in its order; every list but the last
\* has length c, the last has 1..c entries, none is empty and n = 0 yields none.
\* While the loop runs, the lists yielded so far are full and are a prefix of
\* the input.
C7_ChunkLossless ==
    /\ \A k \in 1..Len(ck_out) : Len(ck_out[k]) >= 1 /\ Len(ck_out[k]) <= ck_size
    /\ \A k \in 1..Len(ck_out) - 1 : Len(ck_out[k]) = ck_size
    /\ ck_pc = "loop" =>
         /\ \A k \in 1..Len(ck_out) : Len(ck_out[k]) = ck_size
         /\ Flatten(ck_out) = SubSeq(ck_in, 1, Len(ck_out) * ck_size)
    /\ ck_pc = "done" =>
         /\ Flatten(ck_out) = ck_in
         /\ Len(ck_out) = CeilDiv(Len(ck_in), ck_size)
         /\ (Len(ck_in) = 0 => ck_out = <<>>)

\* C7 witness: 5 entries with size 2 came out as lists of sizes 2, 2, 1.
C7_Witness ==
    /\ ck_pc = "done"
    /\ Len(ck_in) = 5
    /\ ck_size = 2
    /\ Len(ck_out) = 3
    /\ Len(ck_out[1]) = 2 /\ Len(ck_out[2]) = 2 /\ Len(ck_out[3]) = 1

\* ------------------------------------------------------------------ claims: format
\* The payload of the latest record with topic t among the first p records of
\* seq, None when there is none.
LatestPayload(seq, p, t) ==
    LET at == {q \in 1..p : Topic(seq[q]) = t}
    IN  IF at = {} THEN None
        ELSE Msg(seq[CHOOSE q \in at : \A x \in at : x <= q])

\* The transform instance a batch entry names: PROCESSORS[src_topic][i].
EntryProcessor(entry) == PROCESSORS[entry[1]][entry[2] + 1]

\* C6: for every batch entry format builds, and every topic T its transform
\* listens to, the correlated argument for T is the payload of the latest
\* record with topic T at or before the entry's record in merge order, never of
\* a later one, and None when no record with topic T has occurred yet.
C6_CorrelatedIsLatest ==
    \A n \in 1..Len(fm_out) :
        LET listen_to == EntryProcessor(fm_out[n]).listen_to
        IN  /\ Len(fm_out[n][4]) = Len(listen_to)
            /\ \A m \in 1..Len(listen_to) :
                  fm_out[n][4][m] = LatestPayload(fm_taken, fm_src[n], listen_to[m])

\* C6 witness: format is done; one entry was given a payload although a later
\* record of the listened topic carries another one, and one entry was given
\* None.
C6_Witness ==
    /\ fm_pc = "done"
    /\ \E n \in 1..Len(fm_out) :
          /\ Len(fm_out[n][4]) = 1
          /\ fm_out[n][4][1] # None
          /\ \E q \in (fm_src[n] + 1)..Len(fm_taken) :
                /\ Topic(fm_taken[q]) = EntryProcessor(fm_out[n]).listen_to[1]
                /\ Msg(fm_taken[q]) # fm_out[n][4][1]
    /\ \E n \in 1..Len(fm_out) : Len(fm_out[n][4]) = 1 /\ fm_out[n][4][1] = None

\* ------------------------------------------------------------------ claims: process_worker
\* What the transform calls of the entries of a batch yield, entry after entry.
RECURSIVE YieldsOf(_)
YieldsOf(batch) ==
    IF batch = <<>> THEN <<>>
    ELSE EntryCall(PROCESSORS, Head(batch)).yields \o YieldsOf(Tail(batch))

\* The entries of batch k whose transform call raises.
Raising(k) ==
    {j \in 1..Len(pw_chunks[k]) : EntryCall(PROCESSORS, pw_chunks[k][j]).raises}

\* C5: when the transform call of a batch entry raises, process_worker catches
\* it and goes on: the ResultBatch it returns holds what every entry of the
\* batch yields, the later ones included, every batch is returned, and the
\* ResultBatch of every other batch is what its own entries yield.
C5_RaiseIsCaught ==
    /\ \A k \in 1..Len(pw_results) :
          /\ pw_results[k] = YieldsOf(pw_chunks[k])
          /\ \A j \in Raising(k) : <<k, j>> \in pw_caught
    /\ pw_pc = "loop" =>
          pw_buffer = YieldsOf(SubSeq(pw_chunks[pw_k], 1,
                                      Len(pw_chunks[pw_k]) - Len(pw_reses)))
    /\ pw_pc = "done" => Len(pw_results) = Len(pw_chunks)
    /\ fm_pc = "done" /\ pw_pc # "done" => ENABLED (ProcessWorkerCall \/ ProcessWorkerStep)
                                          \/ pw_chunks = <<>>

\* C5 witness: every batch is returned; in one of them the call of an entry
\* raised, a later entry of that batch yields outputs, and a batch follows it.
C5_Witness ==
    /\ pw_pc = "done"
    /\ \E c \in pw_caught :
          /\ c[2] < Len(pw_chunks[c[1]])
          /\ EntryCall(PROCESSORS, pw_chunks[c[1]][c[2] + 1]).yields # <<>>
          /\ c[1] < Len(pw_chunks)

\* ------------------------------------------------------------------ claims: run
\* The batch ids of a history, the sentinel left out.
Batches(h) == SelectSeq(h, LAMBDA id : id # NoneId)

\* 1, 2, ..., n
UpTo(n) == [k \in 1..n |-> k]

InOrder(h) == Batches(h) = UpTo(Len(Batches(h)))

\* C1: whatever the order in which the pool finishes the batches,
\* pool_ref_getter puts the ResultBatches on the writer queue in submission
\* order (batch 1, 2, ... with none skipped or repeated), and the lines
\* written to the sink are those of batch k before those of batch k + 1.
C1_SubmissionOrder ==
    /\ InOrder(handed)
    /\ InOrder(forwarded)
    /\ \A i \in 1..Len(writer_queue) - 1 :
          ~IsNone(writer_queue[i + 1]) =>
              ItemId(writer_queue[i]) < ItemId(writer_queue[i + 1])
    /\ \A i \in 1..Len(sink_from) - 1 : sink_from[i] <= sink_from[i + 1]

\* A later batch finished before an earlier one, both had output, and the run
\* is over.
C1_Witness ==
    /\ overtaken
    /\ main_pc = "returned"
    /\ \E i \in 1..Len(sink_from) - 1 : sink_from[i] < sink_from[i + 1]

\* What a run without failures has to write: process_worker of every chunk,
\* concatenated in submission order.
RECURSIVE ResultsOf(_)
ResultsOf(chunks) ==
    IF chunks = <<>> THEN <<>>
    ELSE process_worker(Head(chunks), PROCESSORS) \o ResultsOf(Tail(chunks))

Expected == ResultsOf(Chunks)

\* C3: when run() has returned, the lines written to the sink are exactly the
\* concatenation, in submission order, of process_worker's result for every
\* chunk the producer created; none was written while the sink was not open,
\* and the sink is closed.
C3_OutputIsConcatenation ==
    /\ ~sink_late
    /\ main_pc = "returned" =>
          /\ pool_tasks = Chunks
          /\ sink_lines = Expected
          /\ sink_state = "closed"

\* run() has returned after several batches, one of them without output.
C3_Witness ==
    /\ main_pc = "returned"
    /\ Len(pool_tasks) >= 2
    /\ sink_lines # <<>>
    /\ \E k \in 1..Len(pool_tasks) : pool_results[k] = <<"ready", <<>>>>

\* A queue changes only by a put at its end or a get at its front, and a put
\* happens only when it has room.
QueueStep(q, qn) ==
    \/ qn = q
    \/ q # <<>> /\ qn = Tail(q)
    \/ Len(q) < QueueMaxsize /\ Len(qn) = Len(q) + 1 /\ SubSeq(qn, 1, Len(q)) = q

\* What is on a queue or was taken from it is what was put on it: nothing was
\* dropped or overwritten.
Kept(h, q) ==
    /\ Len(q) <= Len(h)
    /\ \A i \in 1..Len(q) : ItemId(q[i]) = h[Len(h) - Len(q) + i]

Bounded ==
    /\ Len(pool_ref_queue) <= QueueMaxsize
    /\ Len(writer_queue) <= QueueMaxsize
    /\ Kept(handed, pool_ref_queue)
    /\ Kept(forwarded, writer_queue)

\* C8: pool_ref_queue and writer_queue hold at most 20 items each in every
\* reachable state; a put on a full queue does not happen (the producer stays
\* where it is until there is room), and no item put is dropped or overwritten.
C8_QueuesBounded ==
    /\ []Bounded
    /\ [][/\ QueueStep(pool_ref_queue, pool_ref_queue')
          /\ QueueStep(writer_queue, writer_queue')
          /\ (main_pc \in {"put_ref", "put_none"} /\ Len(pool_ref_queue) = QueueMaxsize)
                => main_pc' = main_pc
          /\ (getter_pc \in {"put", "put_none"} /\ Len(writer_queue) = QueueMaxsize)
                => getter_pc' = getter_pc]_vars

\* pool_ref_queue is full and the producer has a handle to put.
C8_Witness ==
    /\ Len(pool_ref_queue) = QueueMaxsize
    /\ main_pc = "put_ref"

\* The sentinel was put, once, after every batch.
Terminated(h) == h = Append(UpTo(Len(Chunks)), NoneId)

\* The sentinel is not in h, or it is its last element.
SentinelLast(h) == \A i \in 1..Len(h) : h[i] = NoneId => i = Len(h)

Shutdown ==
    /\ SentinelLast(handed) /\ SentinelLast(forwarded)
    /\ NoneId \in {handed[i] : i \in 1..Len(handed)} =>
          chunk_gen = <<>> /\ Terminated(handed)
    /\ NoneId \in {forwarded[i] : i \in 1..Len(forwarded)} => Terminated(forwarded)
    /\ main_pc \in {"join_getter", "join_writer", "pool_join", "returned"} =>
          Terminated(handed)
    /\ getter_pc = "done" =>
          /\ Terminated(forwarded)
          /\ pool_ref_queue = <<>>
          /\ writer_pc \notin {"exit", "done"} =>
                writer_queue # <<>> /\ IsNone(writer_queue[Len(writer_queue)])
    /\ writer_pc \in {"exit", "done"} =>
          /\ getter_pc = "done"
          /\ writer_queue = <<>>
          /\ writer_msgs = <<>>
    /\ writer_pc = "done" => sink_state = "closed"
    /\ sink_state = "closed" => writer_pc = "done"

\* C9: the producer puts one sentinel on pool_ref_queue, after the last
\* handle and once the chunks are exhausted; pool_ref_getter puts exactly one
\* sentinel on the writer queue, after the last ResultBatch; writer_process
\* then takes nothing more from the queue and the sink gets closed.
C9_SentinelShutdown ==
    /\ []Shutdown
    /\ (chunk_gen = <<>> /\ main_pc = "put_none") ~> (sink_state = "closed")

\* The sentinel went through both queues behind several batches and the sink
\* is closed.
C9_Witness ==
    /\ sink_state = "closed"
    /\ Len(forwarded) >= 3
    /\ Terminated(forwarded)

\* run() has returned and nothing is left running or queued.
Finished ==
    /\ main_pc = "returned"
    /\ getter_pc = "done"
    /\ writer_pc = "done"
    /\ worker_pool = "joined"
    /\ Unfinished = {}
    /\ pool_ref_queue = <<>>
    /\ writer_queue = <<>>

\* C10: under fair scheduling run() eventually returns with the producer, the
\* collector thread, the writer process and the worker pool all finished, for
\* every input drawn (among them one with more batches than a queue holds) and
\* every concurrency degree.
C10_RunTerminates == <>Finished

\* run() has returned after more batches than a queue holds.
C10_Witness ==
    /\ Finished
    /\ Len(pool_tasks) > QueueMaxsize

ProducerFailed == gen_raises /\ write_raises = 0

Drained ==
    /\ sink_state = "closed"
    /\ sink_lines = ResultsOf(pool_tasks)

DrainsInOrder ==
    ProducerFailed =>
        /\ main_pc = "raised" => handed = Append(UpTo(Len(pool_tasks)), NoneId)
        /\ main_pc = "raised" => pool_tasks = ChunkGen
        /\ InOrder(forwarded)
        /\ \A i \in 1..Len(sink_from) - 1 : sink_from[i] <= sink_from[i + 1]
        /\ ~sink_late
        /\ sink_state = "closed" => main_pc = "raised" /\ Drained

\* C12: when the producer's generator chain raises, the sentinel is still put
\* on pool_ref_queue, behind the handles of the batches already submitted;
\* those batches are forwarded and written in submission order, all of them
\* by the time the sink is closed, and the sink does get closed.
C12_ProducerFailureDrains ==
    /\ []DrainsInOrder
    /\ (ProducerFailed /\ main_pc = "init") ~> Drained

\* The producer raised after submitting several batches, whose lines are all
\* written, and the sink is closed.
C12_Witness ==
    /\ ProducerFailed
    /\ main_pc = "raised"
    /\ Drained
    /\ Len(pool_tasks) >= 2
    /\ sink_lines # <<>>

\* C13: once the exception has left run(), the sink is closed, the collector
\* thread and the writer process have ended and the worker pool is joined.
C13_RaisedAfterTeardown ==
    main_pc = "raised" =>
        /\ sink_state = "closed"
        /\ getter_pc = "done"
        /\ writer_pc \in {"done", "failed"}
        /\ worker_pool = "joined"

\* write_line has raised in the writer process.
WriterFailed == writer_pc \in {"unwind", "failed"}

\* C14: when write_line raises, run() does not return normally but ends by
\* raising to its caller, and the sink is closed once the writer has ended.
C14_WriteFailureFatal ==
    /\ [](WriterFailed => main_pc # "returned")
    /\ [](writer_pc = "failed" => sink_state = "closed")
    /\ WriterFailed ~> (main_pc = "raised")

\* C15: when a reader raises while it is merged, run() does not raise, and
\* when it has returned the lines written are those of the records the
\* readers yielded, those of the other readers included.
C15_SourceFailureIsolated ==
    (raising # 0 /\ write_raises = 0) =>
        /\ main_pc # "raised"
        /\ main_pc = "returned" => sink_lines = Expected

\* ------------------------------------------------------------------ claims: setup
\* The topics the readers of the pipeline are sources of.
SourceTopics == {readers[k].raw_topic : k \in 1..Len(readers)}

\* The processors in the transform table, of all topics.
AllProcessors ==
    UNION {{PROCESSORS[t][k] : k \in 1..Len(PROCESSORS[t])} : t \in AllTopics}

\* Every output of every processor in the table has a schema that resolves.
SchemasResolve ==
    \A p \in AllProcessors : \A o \in 1..Len(Outputs(p.cls)) :
        ~GetMessageTypeRaises(Outputs(p.cls)[o][2])

\* Every topic a processor in the table listens to has a reader.
ListenedHaveSource ==
    \A p \in AllProcessors : \A k \in 1..Len(p.listen_to) :
        p.listen_to[k] \in SourceTopics

\* An unresolvable output schema raises in setup (holds; checked on its own).
UnresolvedRaises == su_pc = "constructed" => SchemasResolve

\* C16: a transform output with an unresolvable schema identifier, or a
\* transform listening to a topic that no reader produces, makes construction
\* raise: a pipeline that was constructed has neither, and when setup raises
\* nothing of the pipeline has been started.
C16_SetupFailureRaises ==
    /\ su_pc = "constructed" => SchemasResolve /\ ListenedHaveSource
    /\ su_pc = "raised" => NotStarted

\* The classes of the register() calls whose pattern matches topic, in call order.
RECURSIVE MatchingCalls(_, _)
MatchingCalls(calls, topic) ==
    IF calls = <<>> THEN <<>>
    ELSE (IF fnmatch(topic, Head(calls)[1]) THEN <<Head(calls)[2]>> ELSE <<>>)
         \o MatchingCalls(Tail(calls), topic)

\* The classes of the instances resolve returns for topic, in order.
Resolved(topic) ==
    LET gs == get_visualization_generators(registry, topic)
    IN  [k \in 1..Len(gs) |-> gs[k].cls]

\* C17: for every topic, get_visualization_generators returns one instance per
\* register() call whose pattern matches the topic, in the order in which the
\* calls were made, whatever the interleaving of the calls across patterns.
C17_RegistrationOrder ==
    \A topic \in AllTopics : Resolved(topic) = MatchingCalls(su_calls, topic)

\* C18: after setup, PROCESSORS holds for each topic that has a reader exactly
\* one instance per matching factory (what resolve returns for the topic, once),
\* also when several readers share the topic, and nothing for other topics.
C18_OncePerTopicFactory ==
    su_pc = "constructed" =>
        \A topic \in AllTopics :
            PROCESSORS[topic] =
                IF topic \in SourceTopics
                THEN get_visualization_generators(registry, topic)
                ELSE <<>>

\* ------------------------------------------------------------------ claims: unmatched topics
\* No registered pattern matches the topic: resolve returns the empty list.
Unmatched(topic) == get_visualization_generators(registry, topic) = <<>>

\* The batch entries format emitted for the k-th record it took.
EntriesOf(k) == {j \in 1..Len(fm_src) : fm_src[j] = k}

\* C19: for a record whose topic matches no registered pattern, resolve returns
\* the empty list and the transform table has nothing for the topic; format
\* emits no batch entry for the record; the stage does not stop there: every
\* record of a reader gets one entry per factory matching its topic, those after
\* an unmatched record included, and format ends only when it has taken every
\* record of its input.
C19_UnmatchedTopicSkipped ==
    /\ \A t \in SourceTopics : Unmatched(t) => PROCESSORS[t] = <<>>
    /\ \A k \in 1..Len(fm_taken) :
        /\ Unmatched(Topic(fm_taken[k])) => EntriesOf(k) = {}
        /\ Topic(fm_taken[k]) \in SourceTopics =>
               Cardinality(EntriesOf(k)) =
                   Len(get_visualization_generators(registry, Topic(fm_taken[k])))
    /\ fm_pc = "done" =>
           fm_taken = filter(get_merge_queue(readers, start_ts, end_ts))

\* C19 witness: format is done, it took a reader's record whose topic matches no
\* pattern and, after it, a record for which it emitted an entry.
C19_Witness ==
    /\ fm_pc = "done"
    /\ \E k \in 1..Len(fm_taken), n \in 1..Len(fm_taken) :
        /\ k < n
        /\ Topic(fm_taken[k]) \in SourceTopics
        /\ Unmatched(Topic(fm_taken[k]))
        /\ EntriesOf(n) # {}

\* ------------------------------------------------------------------ claims: initialize record
\* The merged records of the readers before any time window is applied.
MergedInput == get_merge_queue(readers, NegInf, PosInf)

\* The timestamp of the first record of the input, 0 for an empty input.
FirstInputTs == IF MergedInput = <<>> THEN 0 ELSE Ts(MergedInput[1])

\* C21: the first record format takes is the one "initialize" record, with the
\* timestamp of the first record of the readers' input before the time window
\* is applied (0 for an empty input); no other record is an "initialize" record
\* and the real records follow in the order of the merge.
C21_InitializeFirst ==
    fm_taken # <<>> =>
        /\ fm_taken[1] = <<"initialize", None, FirstInputTs>>
        /\ \A k \in 2..Len(fm_taken) : Topic(fm_taken[k]) # "initialize"
        /\ Tail(fm_taken) =
               SubSeq(get_merge_queue(readers, start_ts, end_ts), 1, Len(fm_taken) - 1)

\* ------------------------------------------------------------------ claims: correlated state
\* The classes registered, under any pattern.
RegisteredClasses ==
    UNION {{registry[k][2][j] : j \in 1..Len(registry[k][2])} : k \in 1..Len(registry)}

\* The topics some registered transform declares in listen_to.
DeclaredListened ==
    UNION {{ListenTo(cls)[j] : j \in 1..Len(ListenTo(cls))} : cls \in RegisteredClasses}

\* The keys of self.last_msg are declared listen_to topics, no more of them than
\* there are such topics.
CorrelatedBounded ==
    /\ DOMAIN last_msg \subseteq DeclaredListened
    /\ Cardinality(DOMAIN last_msg) <= Cardinality(DeclaredListened)

\* format takes a record whose topic no registered transform listens to.
TakesUnlistened ==
    /\ fm_iter # <<>>
    /\ fm_taken' = Append(fm_taken, Head(fm_iter))
    /\ Topic(Head(fm_iter)) \notin DeclaredListened

\* C22: at every point the keys of last_msg are topics declared in the listen_to
\* of some registered transform, so there are at most as many keys as such
\* topics; and a record whose topic no transform listens to leaves last_msg
\* unchanged.
C22_CorrelatedStateBounded ==
    /\ []CorrelatedBounded
    /\ [][TakesUnlistened => last_msg' = last_msg]_vars

\* C22 witness: format is done and has stored the payload of a listened topic,
\* and it took a reader's record of a topic no transform listens to.
C22_Witness ==
    /\ fm_pc = "done"
    /\ DOMAIN last_msg # {}
    /\ \E k \in 1..Len(fm_taken) :
        /\ Topic(fm_taken[k]) \in SourceTopics
        /\ Topic(fm_taken[k]) \notin DeclaredListened

\* ------------------------------------------------------------------ claims: sink
\* The sink was set up only with its schema table set, holds no line before it
\* is set up, was never written to while not open, and is closed when run()
\* has returned.
SinkInOrder ==
    /\ sink_state # "new" => writer_topic2pb2 # NoTable
    /\ sink_state = "new" => sink_lines = <<>>
    /\ ~sink_late
    /\ main_pc = "returned" => sink_state = "closed"

\* The sink goes from new to open to closed and never back: one setup, one close.
SinkStep ==
    sink_state' # sink_state =>
        <<sink_state, sink_state'>> \in {<<"new", "open">>, <<"open", "closed">>}

\* A write adds one line, to the open sink, from the writer process's loop.
SinkWrite ==
    sink_lines' # sink_lines =>
        /\ sink_state = "open" /\ sink_state' = "open"
        /\ writer_pc = "write"
        /\ Len(sink_lines') = Len(sink_lines) + 1
        /\ SubSeq(sink_lines', 1, Len(sink_lines)) = sink_lines

\* Construction hands the schema table to the writer and starts nothing.
TableSetInSetup ==
    /\ su_pc = "constructed" <=> writer_topic2pb2 # NoTable
    /\ sink_state = "new"

\* C23: the sink sees set_topic2pb2, then setup, then writes, then one close: it
\* is set up only once the schema table is set, every write is made by the
\* writer process on the open sink, one line at a time, and once closed the
\* sink is neither written to nor opened or closed again; it is closed when
\* run() has returned.
C23_SinkCallSequence ==
    /\ []SinkInOrder
    /\ [][SinkStep /\ SinkWrite]_vars

\* C23 witness: run() has returned, the sink is closed and holds several lines.
C23_Witness ==
    /\ main_pc = "returned"
    /\ sink_state = "closed"
    /\ writer_topic2pb2 # NoTable
    /\ Len(sink_lines) >= 2

\* ------------------------------------------------------------------ claims: output order
\* The number of entries format emitted before entry j for the same record.
EarlierOfSameRecord(j) == Cardinality({x \in 1..(j - 1) : fm_src[x] = fm_src[j]})

\* C24: for a record matched by k transforms format emits k entries, one after
\* the other, with the transform indices 0..k-1 in that order, records in the
\* order taken; the batches keep that order; and process_worker returns, for a
\* batch, what the transform calls of its entries yield, entry after entry, the
\* outputs of one call together and in the order the call yields them.
C24_TransformOrder ==
    /\ \A j \in 1..Len(fm_out) - 1 : fm_src[j] <= fm_src[j + 1]
    /\ \A j \in 1..Len(fm_out) : fm_out[j][2] = EarlierOfSameRecord(j)
    /\ \A n \in 1..Len(fm_taken) :
          Cardinality(EntriesOf(n)) = Len(PROCESSORS[Topic(fm_taken[n])])
    /\ fm_pc = "done" => Flatten(pw_chunks) = fm_out
    /\ \A k \in 1..Len(pw_results) : pw_results[k] = YieldsOf(pw_chunks[k])

\* C24 witness: every batch is returned; one batch holds the entries 0 and 1 of
\* one record, the call of the second yields two outputs, and these are the
\* last two outputs of the batch's result up to there.
C24_Witness ==
    /\ pw_pc = "done"
    /\ \E k \in 1..Len(pw_chunks) : \E j \in 1..Len(pw_chunks[k]) - 1 :
          /\ pw_chunks[k][j][2] = 0
          /\ pw_chunks[k][j + 1][2] = 1
          /\ Len(EntryCall(PROCESSORS, pw_chunks[k][j]).yields) = 1
          /\ Len(EntryCall(PROCESSORS, pw_chunks[k][j + 1]).yields) = 2
          /\ Len(pw_results[k]) >= 3

\* ------------------------------------------------------------------ claims: empty input
\* The readers have no record inside the time window.
NoRecordInWindow ==
    \A k \in 1..Len(readers) : \A j \in 1..Len(readers[k].lines) :
        ~InWindow(readers[k].lines[j])

\* Nothing was submitted to the pool, no batch was put on a queue, nothing was
\* written.
NothingProcessed ==
    /\ pool_tasks = <<>>
    /\ Batches(handed) = <<>>
    /\ Batches(forwarded) = <<>>
    /\ sink_lines = <<>>

\* run() has returned with the sink set up and closed and nothing written.
ReturnedEmpty ==
    /\ main_pc = "returned"
    /\ sink_state = "closed"
    /\ NothingProcessed

\* C25: when the readers have no record, or none inside the time window, the
\* "initialize" record alone gives no batch: no task is ever submitted to the
\* pool and no line is written, and run() returns with the sink set up and
\* closed.
C25_EmptyInputNoBatch ==
    /\ [](NoRecordInWindow => NothingProcessed)
    /\ [](NoRecordInWindow /\ sink_state = "closed" => writer_pc = "done")
    /\ <>(NoRecordInWindow => ReturnedEmpty)

\* C25 witness: run() has returned with nothing written for readers whose
\* records are all outside the window.
C25_Witness ==
    /\ ReturnedEmpty
    /\ NoRecordInWindow
    /\ \E k \in 1..Len(readers) : readers[k].lines # <<>>

\* ------------------------------------------------------------------ claims: failed result
\* ref.get() raised in pool_ref_getter: the thread left its loop holding a handle.
GetterDied == getter_pc \in {"put_none", "done"} /\ Truthy(getter_ref)

\* The producer waits to put on the full pool_ref_queue.
ProducerWaits == main_pc \in {"put_ref", "put_none"} /\ ~HasRoom(pool_ref_queue)

\* C26: when ref.get() raises in pool_ref_getter the pipeline still shuts down:
\* the producer is never left waiting on the full pool_ref_queue after the
\* collector thread has ended, and run() eventually returns with the sink closed.
C26_GetFailureShutsDown ==
    /\ [](GetterDied /\ getter_pc = "done" => ~ProducerWaits)
    /\ GetterDied ~> (main_pc = "returned" /\ sink_state = "closed")

\* ------------------------------------------------------------------ claims: merge completeness
\* How often record r occurs in seq.
Occurrences(seq, r) == Cardinality({i \in 1..Len(seq) : seq[i] = r})

\* How often record r occurs in the lines of the readers.
InReaders(r) ==
    LET Sum[k \in 0..Len(readers)] ==
            IF k = 0 THEN 0 ELSE Sum[k - 1] + Occurrences(readers[k].lines, r)
    IN  Sum[Len(readers)]

\* The records of the readers inside the time window.
WindowRecords ==
    UNION {{readers[k].lines[j] : j \in 1..Len(readers[k].lines)} : k \in 1..Len(readers)}
        \cap {r \in AllTopics \X Payloads \X Timestamps : InWindow(r)}

\* C27: once get_merge_queue has ended, every record of every reader inside the
\* time window is in its output exactly as often as the readers hold it; a
\* record past end_ts of one reader does not make it leave out a record of
\* another reader that is inside the window.
C27_WindowComplete ==
    mq_pc \in {"exhausted", "break"} =>
        \A r \in WindowRecords : Occurrences(mq_out, r) = InReaders(r)

\* ------------------------------------------------------------------ claims: run-ahead
\* The batches submitted to the pool whose results are not yet on writer_queue.
InFlight == Len(pool_tasks) - Len(Batches(forwarded))

\* C28: the batches submitted to the worker pool whose results have not yet
\* been put on the writer queue are never more than the capacity of
\* pool_ref_queue plus 2 (one handle the producer is about to put, one the
\* collector thread has taken), however slow the workers and the writer are.
C28_RunAheadBounded == InFlight <= QueueMaxsize + 2

\* C28 witness: the bound is reached, with the producer waiting to put a handle
\* and batches still to come.
C28_Witness ==
    /\ InFlight = QueueMaxsize + 2
    /\ main_pc = "put_ref"
    /\ Len(pool_ref_queue) = QueueMaxsize
    /\ chunk_gen # <<>>

\* ------------------------------------------------------------------ claims: empty result
\* The batches whose result is the empty list.
EmptyResults == {k \in 1..Len(pool_results) : pool_results[k] = <<"ready", <<>>>>}

\* The collector thread has left its loop only for the sentinel, and the writer
\* process only after the collector's sentinel, which is the last item put.
OnlySentinelStops ==
    /\ getter_pc \in {"put_none", "done"} => IsNone(getter_ref)
    /\ writer_pc \in {"exit", "done"} =>
          /\ getter_pc = "done"
          /\ writer_queue = <<>>
          /\ Batches(forwarded) = UpTo(Len(pool_tasks))

\* The collector thread has put an empty result on writer_queue and goes on to
\* the next handle; the writer process has taken an empty result and goes on to
\* the next item.
EmptyGoesOn ==
    /\ (getter_pc = "put" /\ getter_chunk[2] = <<>> /\ getter_pc' # getter_pc)
          => getter_pc' = "get" /\ writer_queue' = Append(writer_queue, getter_chunk)
    /\ (writer_pc = "get" /\ writer_queue # <<>> /\ writer_pc' # writer_pc)
          => (writer_pc' = "exit" <=> IsNone(Head(writer_queue)))

\* C29: a batch whose result is empty does not end the stream: the collector
\* thread forwards it and takes the next handle, the writer process takes it and
\* waits for the next item; each of them stops only for the sentinel, after
\* every batch; and the lines of the batches after an empty one are written.
C29_EmptyBatchGoesOn ==
    /\ []OnlySentinelStops
    /\ [](main_pc = "returned" => sink_lines = Expected)
    /\ [][EmptyGoesOn]_vars

\* C29 witness: run() has returned; a batch with an empty result was followed
\* by a batch whose lines were written.
C29_Witness ==
    /\ main_pc = "returned"
    /\ \E k \in EmptyResults : \E n \in 1..Len(sink_from) : sink_from[n] > k

\* ------------------------------------------------------------------ claims: timestamps
\* What generate yields for the entries of a batch, entry after entry, each
\* with the timestamp of the entry's record: <<result, ts>>.
RECURSIVE Emitted(_)
Emitted(batch) ==
    IF batch = <<>> THEN <<>>
    ELSE LET entry == Head(batch)
             g == Generate(PROCESSORS[entry[1]][entry[2] + 1].cls,
                           entry[3], entry[5], entry[4])
         IN  [n \in 1..Len(g.yields) |-> <<g.yields[n], entry[5]>>]
             \o Emitted(Tail(batch))

\* The timestamp an output tuple has to carry: the transform's own when it
\* yielded (topic, payload, override_timestamp), else the record's.
StampOf(e) == IF Len(e[1]) = 3 THEN e[1][3] ELSE e[2]

\* C30: every tuple process_worker returns for a batch is one the transform
\* yielded, with its topic and its serialized payload, and carries the
\* timestamp of the input record when the transform yielded (topic, payload)
\* and the transform's own timestamp when it yielded (topic, payload,
\* override_timestamp).
C30_OutputTimestamp ==
    \A k \in 1..Len(pw_results) :
        LET em == Emitted(pw_chunks[k])
        IN  /\ Len(pw_results[k]) = Len(em)
            /\ \A n \in 1..Len(em) :
                  /\ pw_results[k][n][1] = em[n][1][1]
                  /\ pw_results[k][n][2] = SerializeToString(em[n][1][2])
                  /\ pw_results[k][n][3] = StampOf(em[n])

\* C30 witness: every batch is returned; one result tuple carries an override
\* timestamp that is not the record's, another the timestamp of its record.
C30_Witness ==
    /\ pw_pc = "done"
    /\ \E k \in 1..Len(pw_results) : \E n \in 1..Len(pw_results[k]) :
          LET em == Emitted(pw_chunks[k])
          IN  /\ Len(em[n][1]) = 3
              /\ em[n][1][3] # em[n][2]
              /\ pw_results[k][n][3] = em[n][1][3]
    /\ \E k \in 1..Len(pw_results) : \E n \in 1..Len(pw_results[k]) :
          LET em == Emitted(pw_chunks[k])
          IN  Len(em[n][1]) = 2 /\ pw_results[k][n][3] = em[n][2]

====
